---- MODULE Spec2Model ----
(***************************************************************************)
(* MemoryEdit: an image editor whose pixel buffer is split into pages that *)
(* live in a budgeted working set (src/js/memory/memoryManager.js) and are *)
(* transformed page by page (imageProcessor, src/unnamed/part_001) on      *)
(* behalf of the editor (src/js/editor/editor.js).                         *)
(*                                                                         *)
(* Units.  The source measures pageSize and memoryLimit in MB and derives  *)
(* pixelsPerPage = floor(pageSize * 1024 * 1024 / 4).  Here both are       *)
(* measured in bytes, so that a page of one pixel is pageSize = 4; every   *)
(* comparison of the source between memoryUsage, pageSize and memoryLimit  *)
(* is unchanged by the change of unit.                                     *)
(*                                                                         *)
(* Time.  Date.now() is the variable clock, counted in units of the 5 ms   *)
(* delay of simulatePageLoad.  A read in synchronous code finds the clock  *)
(* where it was or one unit later.  A timer of simulatePageLoad is due one *)
(* unit after the time it was set at; timers fire in the order they were   *)
(* set, each no sooner than its due time and no sooner than the clock has  *)
(* reached, and up to MaxLate units later.  The code uses timestamps only  *)
(* through their order.                                                    *)
(*                                                                         *)
(* Scheduling.  JavaScript runs one task at a time: cpu names the render   *)
(* whose task is executing (0 when the thread is free).  Other tasks start *)
(* only when cpu = 0.  A render leaves the thread at the await of          *)
(* simulatePageLoad; what its caller does after the call of renderImage    *)
(* (the saveState of a click handler) runs at that await, or, when no page *)
(* faults, between the return of processImageChunks and the continuation   *)
(* of renderImage.  The calls of the memory manager's API and the requests *)
(* of the editor are accepted whenever the thread is free, whatever is in  *)
(* flight; the specifications SpecSerial and SpecEdit describe clients     *)
(* that await each call.                                                   *)
(***************************************************************************)
EXTENDS Integers, Sequences, FiniteSets, TLC

VARIABLES
  memoryLimit,        \* setupMemoryManager({memoryLimit}), bytes
  pageSize,           \* setupMemoryManager({pageSize}), bytes
  pageTable,          \* Map page_i => page, as the sequence of its values in insertion order
  stats,              \* activePages, inactivePages, pageHits, pageFaults, memoryUsage
  epoch,              \* number of clearAllPages so far: identity of the page objects
  clock,              \* Date.now()
  originalImage,      \* editor: source image of the renders
  currentImage,       \* editor: output of the last finished render
  currentAdjustments, \* editor: {brightness, contrast}
  currentFilter,      \* editor
  currentRotation,    \* editor
  runs,               \* renders in flight: renderImage -> processImage -> processImageChunks
  timers,             \* pending setTimeout callbacks of simulatePageLoad, in firing order
  cpu,                \* the render whose synchronous code is running, 0 if none
  emitted,            \* signals emitted on the event bus by the last step
  lastRun,            \* the render that finished last (its inputs, output and writes)
  nreq,               \* number of requests made so far
  historyManager,     \* editor: the HistoryManager {states, currentIndex, maxStates}
  returned,           \* what the last call of undo() or redo() of a HistoryManager returned
  toolsUI,            \* tools UI: the sliders and their debounce timer
  eventBus            \* an EventBus: its listeners, the emits in progress, the calls made

vars == <<memoryLimit, pageSize, pageTable, stats, epoch, clock, originalImage,
          currentImage, currentAdjustments, currentFilter, currentRotation,
          runs, timers, cpu, emitted, lastRun, nreq,
          historyManager, returned, toolsUI, eventBus>>

\* the state outside the memory manager and the renders
uiVars == <<historyManager, returned, toolsUI, eventBus>>

\* the variables of the memory manager and of the renders
coreVars == <<memoryLimit, pageSize, pageTable, stats, epoch, clock, originalImage,
              currentImage, currentAdjustments, currentFilter, currentRotation,
              runs, timers, cpu, emitted, lastRun, nreq>>

----------------------------------------------------------------------------
(* Bounds of the model *)

MaxBudget == 2
MaxClock == 6
MaxRequests == 2
MaxCalls == 3
MaxInFlight == 2
MaxLate == 1

(* Program constants *)

BytesPerPixel == 4
\* setTimeout(resolve, 5): the clock counts units of this delay
LoadDelay == 1
\* Infinity of swapOutLRUPage: larger than every timestamp
Infinity == 999999

----------------------------------------------------------------------------
(* Values *)

Min(a, b) == IF a < b THEN a ELSE b
Max(a, b) == IF a > b THEN a ELSE b

\* null for a page's data: a value that is no byte array
Null == <<-1>>

NoImage == [width |-> 0, height |-> 0, data |-> <<>>]

RampPixel(k) == << (10 + 40 * k) % 256, (20 + 40 * k) % 256, (30 + 40 * k) % 256, 255 - k >>
GrayPixel(k) == << 128, 128, 128, 255 >>
\* the colours of the ramp, opaque
SolidPixel(k) == << (10 + 40 * k) % 256, (20 + 40 * k) % 256, (30 + 40 * k) % 256, 255 >>

PixelOf(kind, k) ==
  IF kind = "gray" THEN GrayPixel(k) ELSE IF kind = "solid" THEN SolidPixel(k) ELSE RampPixel(k)

\* a decoded image: width, height and the interleaved RGBA bytes
ImageOf(w, h, kind) ==
  [width |-> w, height |-> h,
   data |-> [j \in 1..(w * h * BytesPerPixel) |->
               PixelOf(kind, (j - 1) \div BytesPerPixel)[((j - 1) % BytesPerPixel) + 1]]]

\* the images a file can decode to: <<width, height, kind>>
Shapes == { <<1, 1, "ramp">>, <<3, 1, "ramp">>, <<1, 2, "ramp">>, <<2, 2, "ramp">>,
            <<2, 2, "gray">> }

Images == { ImageOf(s[1], s[2], s[3]) : s \in Shapes }

\* page sizes in bytes: one pixel, and two pixels with two bytes to spare
PageSizes == { 4, 10 }

Brightnesses == {0, 20}
Contrasts == {0, 50}
Filters == {"none", "grayscale", "sepia", "invert"}
Rotations == {0, 90, 180, 270}

\* the timestamps one synchronous read of Date.now() can return
Now == { t \in {clock, clock + 1} : t <= MaxClock }

\* n successive reads of Date.now() in one synchronous loop: each returns the
\* previous timestamp or one tick later
RECURSIVE Readings(_, _)
Readings(n, from) ==
  IF n = 0 THEN { <<>> }
  ELSE UNION { { <<t>> \o rest : rest \in Readings(n - 1, t) } :
               t \in { u \in {from, from + 1} : u <= MaxClock } }

----------------------------------------------------------------------------
(* Event bus: the signals a step emits, in order *)

\* a signal and the page it names (-1 if none).  resident is history kept for the
\* verification, not part of the payload: for a swapped-out signal, the timestamps
\* of the pages that were active when the victim was selected
Signal(type, pageId) == [type |-> type, pageId |-> pageId, resident |-> <<>>]

\* eventBus.emit from the memory manager state m
Emit(m, type, pageId) == [m EXCEPT !.emitted = Append(@, Signal(type, pageId))]

\* <<page index, lastAccessed>> of the active pages of a table, in table order
RECURSIVE ResidentOf(_, _)
ResidentOf(table, i) ==
  IF i > Len(table) THEN <<>>
  ELSE (IF table[i].status = "active" THEN << <<i - 1, table[i].lastAccessed>> >> ELSE <<>>)
       \o ResidentOf(table, i + 1)

----------------------------------------------------------------------------
(* Memory manager.  Its operations act on m = [pageTable, stats, emitted]. *)

ZeroStats == [activePages |-> 0, inactivePages |-> 0, pageHits |-> 0,
              pageFaults |-> 0, memoryUsage |-> 0]

updateMemoryStats(m) == Emit(m, "memory:stats:updated", -1)

\* the table cleared with the counters of hits and faults kept
clearAllPages_KeepCounters(m) ==
  updateMemoryStats([m EXCEPT !.pageTable = <<>>,
                              !.stats = [ZeroStats EXCEPT !.pageHits = m.stats.pageHits,
                                                          !.pageFaults = m.stats.pageFaults]])

clearAllPages(m) ==
  updateMemoryStats([m EXCEPT !.pageTable = <<>>, !.stats = ZeroStats])

\* the scan with the status of the page left out of its test
RECURSIVE LruScan_AnyStatus(_, _, _, _)
LruScan_AnyStatus(table, i, oldestTime, lruPageId) ==
  IF i > Len(table) THEN lruPageId
  ELSE IF table[i].lastAccessed < oldestTime
       THEN LruScan_AnyStatus(table, i + 1, table[i].lastAccessed, i - 1)
       ELSE LruScan_AnyStatus(table, i + 1, oldestTime, lruPageId)

\* the scan with <= for <: of the pages tied on the oldest time the last one wins
RECURSIVE LruScan_LastTie(_, _, _, _)
LruScan_LastTie(table, i, oldestTime, lruPageId) ==
  IF i > Len(table) THEN lruPageId
  ELSE IF table[i].status = "active" /\ table[i].lastAccessed <= oldestTime
       THEN LruScan_LastTie(table, i + 1, table[i].lastAccessed, i - 1)
       ELSE LruScan_LastTie(table, i + 1, oldestTime, lruPageId)

\* the scan of swapOutLRUPage over pageTable.entries(), from entry i on
RECURSIVE LruScan(_, _, _, _)
LruScan(table, i, oldestTime, lruPageId) ==
  IF i > Len(table) THEN lruPageId
  ELSE IF table[i].status = "active" /\ table[i].lastAccessed < oldestTime
       THEN LruScan(table, i + 1, table[i].lastAccessed, i - 1)
       ELSE LruScan(table, i + 1, oldestTime, lruPageId)

\* the selection among the pages of every status
LruPageId_Oldest(table) == LruScan_AnyStatus(table, 1, Infinity, -1)

\* the page index swapOutLRUPage selects, -1 for null
LruPageId(table) == LruScan(table, 1, Infinity, -1)

\* the eviction without page.data = null
swapOutLRUPage_KeepData(m) ==
  LET lruPageId == LruPageId(m.pageTable) IN
  IF lruPageId # -1
  THEN [m EXCEPT !.pageTable[lruPageId + 1].status = "inactive",
                 !.stats.activePages = @ - 1,
                 !.stats.inactivePages = @ + 1,
                 !.stats.memoryUsage = @ - pageSize,
                 !.emitted = Append(@, [type |-> "memory:page:swapped-out",
                                        pageId |-> lruPageId,
                                        resident |-> ResidentOf(m.pageTable, 1)])]
  ELSE m

\* the eviction without stats.inactivePages++
swapOutLRUPage_NoInactive(m) ==
  LET lruPageId == LruPageId(m.pageTable) IN
  IF lruPageId # -1
  THEN [m EXCEPT !.pageTable[lruPageId + 1].status = "inactive",
                 !.pageTable[lruPageId + 1].data = Null,
                 !.stats.activePages = @ - 1,
                 !.stats.memoryUsage = @ - pageSize,
                 !.emitted = Append(@, [type |-> "memory:page:swapped-out",
                                        pageId |-> lruPageId,
                                        resident |-> ResidentOf(m.pageTable, 1)])]
  ELSE m

swapOutLRUPage(m) ==
  LET lruPageId == LruPageId(m.pageTable) IN
  IF lruPageId # -1
  THEN [m EXCEPT !.pageTable[lruPageId + 1].status = "inactive",
                 !.pageTable[lruPageId + 1].data = Null,
                 !.stats.activePages = @ - 1,
                 !.stats.inactivePages = @ + 1,
                 !.stats.memoryUsage = @ - pageSize,
                 !.emitted = Append(@, [type |-> "memory:page:swapped-out",
                                        pageId |-> lruPageId,
                                        resident |-> ResidentOf(m.pageTable, 1)])]
  ELSE m

\* Array.prototype.slice(a, b) for 0 <= a
Slice(data, a, b) == SubSeq(data, a + 1, Min(b, Len(data)))

pixelsPerPage == pageSize \div BytesPerPixel

TotalPages(image) == (image.width * image.height + pixelsPerPage - 1) \div pixelsPerPage

\* the page with its end not limited to the image
NewPage_NoMin(image, i, now) ==
  LET startPixel == i * pixelsPerPage
      endPixel == (i + 1) * pixelsPerPage
      startIndex == startPixel * BytesPerPixel
      endIndex == endPixel * BytesPerPixel
  IN [data |-> Slice(image.data, startIndex, endIndex),
      status |-> "active",
      lastAccessed |-> now,
      startPixel |-> startPixel,
      endPixel |-> endPixel,
      startIndex |-> startIndex,
      endIndex |-> endIndex]

\* the page storeImage creates for index i
NewPage(image, i, now) ==
  LET startPixel == i * pixelsPerPage
      endPixel == Min((i + 1) * pixelsPerPage, image.width * image.height)
      startIndex == startPixel * BytesPerPixel
      endIndex == endPixel * BytesPerPixel
  IN [data |-> Slice(image.data, startIndex, endIndex),
      status |-> "active",
      lastAccessed |-> now,
      startPixel |-> startPixel,
      endPixel |-> endPixel,
      startIndex |-> startIndex,
      endIndex |-> endIndex]

\* the test of storeImage with >= for >
OverLimit_Early(m) == m.stats.memoryUsage >= memoryLimit

\* storeImage, line 82: the page just admitted took the usage over the limit
OverLimit(m) == m.stats.memoryUsage > memoryLimit

\* the test of swapInPage without the page to admit
NoRoom_Late(m) == m.stats.memoryUsage > memoryLimit

\* swapInPage, line 259: admitting one more page would take the usage over the limit
NoRoom(m) == m.stats.memoryUsage + pageSize > memoryLimit

\* the loop of storeImage from page i on; ts[i + 1] is what Date.now() returns for page i
RECURSIVE StorePages(_, _, _, _)
StorePages(i, image, ts, m) ==
  IF i >= TotalPages(image) THEN m
  ELSE LET m1 == [m EXCEPT !.pageTable = Append(@, NewPage(image, i, ts[i + 1])),
                           !.stats.activePages = @ + 1,
                           !.stats.memoryUsage = @ + pageSize]
           m2 == IF OverLimit(m1) THEN swapOutLRUPage(m1) ELSE m1
       IN StorePages(i + 1, image, ts, m2)

storeImage(image, ts, m) ==
  IF image = NoImage THEN m
  ELSE updateMemoryStats(StorePages(0, image, ts, clearAllPages(m)))

----------------------------------------------------------------------------
(* Image processor: processChunk and the transforms it applies *)

\* Math.round(num / den) for den > 0: the nearest integer, halves upwards
RoundDiv(num, den) == (2 * num + den) \div (2 * den)

clamp(value) == Max(0, Min(255, value))

\* loops that write the fourth byte of a pixel like the other three
IsAlpha_None(j) == FALSE

\* true for the alpha byte of a pixel (index i + 3 of the loops), 1-based position j
IsAlpha(j) == j % BytesPerPixel = 0

\* data[i] + brightness / 100 * 255, rounded and clamped
applyBrightness(data, brightness) ==
  [j \in 1..Len(data) |->
     IF IsAlpha(j) THEN data[j]
     ELSE clamp(RoundDiv(data[j] * 100 + brightness * 255, 100))]

\* factor * (data[i] - 128) + 128 with factor = 259 (contrast + 100) / (255 (259 - contrast)),
\* rounded and clamped; a zero denominator makes factor Infinity, and the product
\* Infinity, -Infinity or NaN, which the clamped array stores as 255, 0 and 0
ContrastByte(d, contrast) ==
  LET num == 259 * (contrast + 100) * (d - 128)
      den == 255 * (259 - contrast)
  IN IF den > 0 THEN clamp(RoundDiv(num, den) + 128)
     ELSE IF den < 0 THEN clamp(RoundDiv(0 - num, 0 - den) + 128)
     ELSE IF (contrast + 100) * (d - 128) > 0 THEN 255
     ELSE 0

applyContrast(data, contrast) ==
  [j \in 1..Len(data) |-> IF IsAlpha(j) THEN data[j] ELSE ContrastByte(data[j], contrast)]

\* first byte position (1-based) of the pixel that holds position j
PixelBase(j) == j - ((j - 1) % BytesPerPixel)

\* the pixel that holds position j ends beyond the array: the loops, which step by
\* pixels, run for it too, and read undefined for the colour bytes it lacks
IsPartial(data, j) == PixelBase(j) + 2 > Len(data)

\* avg = (r + g + b) / 3 stored into a Uint8ClampedArray (nearest integer); for a
\* partial pixel avg is NaN, which the array stores as 0
applyGrayscale(data) ==
  [j \in 1..Len(data) |->
     IF IsAlpha(j) THEN data[j]
     ELSE IF IsPartial(data, j) THEN 0
     ELSE LET b == PixelBase(j)
          IN (data[b] + data[b + 1] + data[b + 2] + 1) \div 3]

\* The sums of applySepia are IEEE doubles: each weight is the double nearest to its
\* literal, and each product and each sum is rounded to the nearest double (ties to
\* even).  A double v with 0 <= v < 512 is a whole number u of units of 2^-55, and is
\* held here by three integers: S, the value in thousandths that exact arithmetic
\* gives; D = 1000 u - S 2^55, the deviation of the double from it; and
\* low = u mod 2^12, the bits a rounding looks at.
DoubleUnits == 4096

\* the literals of lines 212-214 as doubles, one row per channel
SepiaWeights ==
  << << [S |-> 393, D |-> 576, low |-> 3048], [S |-> 769, D |-> 608, low |-> 3900],
        [S |-> 189, D |-> 48, low |-> 1278] >>,
     << [S |-> 349, D |-> -832, low |-> 2424], [S |-> 686, D |-> 1952, low |-> 2820],
        [S |-> 168, D |-> 376, low |-> 3867] >>,
     << [S |-> 272, D |-> 704, low |-> 2360], [S |-> 534, D |-> 1088, low |-> 296],
        [S |-> 131, D |-> 192, low |-> 1016] >> >>

\* the distance between neighbouring doubles around v, in units: 2^k for the largest k
\* with v >= 2^(k - 3), up to 2^11 for the sums of 256 and more, and 1 (every value
\* is a double) below 1/8
Spacing(S, D) ==
  LET ks == { k \in 0..11 : 8 * S > 1000 * 2^k \/ (8 * S = 1000 * 2^k /\ D >= 0) }
  IN IF ks = {} THEN 1 ELSE 2^(CHOOSE k \in ks : \A j \in ks : j <= k)

\* the double nearest to an exact result, ties to the even neighbour
RoundToDouble(S, D, low) ==
  LET q == Spacing(S, D)
      lo == low % q
      rho == IF 2 * lo < q THEN 0 - lo
             ELSE IF 2 * lo > q THEN q - lo
             ELSE IF low % (2 * q) >= q THEN q - lo
             ELSE 0 - lo
  IN [S |-> S, D |-> D + 1000 * rho, low |-> (low + rho + DoubleUnits) % DoubleUnits]

\* byte * weight and x + y in doubles
Times(byte, w) == RoundToDouble(byte * w.S, byte * w.D, (byte * w.low) % DoubleUnits)
Plus(x, y) == RoundToDouble(x.S + y.S, x.D + y.D, (x.low + y.low) % DoubleUnits)

\* Math.round of a double: the nearest integer, a half upwards; a sum that exact
\* arithmetic puts on a half and the doubles put below it goes down
MathRound(x) ==
  IF x.S % 1000 = 500 /\ x.D < 0 THEN x.S \div 1000 ELSE RoundDiv(x.S, 1000)

\* r * w1 + g * w2 + b * w3 of channel c, evaluated from left to right: the two
\* products, their sum, the third product, the sum
SepiaSum(c, r, g, bl) ==
  CHOOSE sum \in { Plus(rg, b3) :
                     rg \in { Plus(r1, g2) : r1 \in { Times(r, SepiaWeights[c][1]) },
                                              g2 \in { Times(g, SepiaWeights[c][2]) } },
                     b3 \in { Times(bl, SepiaWeights[c][3]) } } : TRUE

\* one channel of the pixel (r, g, bl): Math.round of the sum, stored into the
\* Uint8ClampedArray
SepiaByte(c, r, g, bl) ==
  CHOOSE byte \in { clamp(rounded) :
                      rounded \in { MathRound(sum) : sum \in { SepiaSum(c, r, g, bl) } } } : TRUE

\* for a partial pixel the three sums are NaN, which the array stores as 0
applySepia(data) ==
  [j \in 1..Len(data) |->
     IF IsAlpha(j) THEN data[j]
     ELSE IF IsPartial(data, j) THEN 0
     ELSE CHOOSE byte \in { SepiaByte(j - PixelBase(j) + 1, r, g, bl) :
                              r \in { data[PixelBase(j)] },
                              g \in { data[PixelBase(j) + 1] },
                              bl \in { data[PixelBase(j) + 2] } } : TRUE]

applyInvert(data) ==
  [j \in 1..Len(data) |-> IF IsAlpha(j) THEN data[j] ELSE 255 - data[j]]

processChunk(chunkData, adjustments, filter) ==
  LET d0 == chunkData
      d1 == IF adjustments.brightness # 0 THEN applyBrightness(d0, adjustments.brightness) ELSE d0
      d2 == IF adjustments.contrast # 0 THEN applyContrast(d1, adjustments.contrast) ELSE d1
  IN IF filter = "grayscale" THEN applyGrayscale(d2)
     ELSE IF filter = "sepia" THEN applySepia(d2)
     ELSE IF filter = "invert" THEN applyInvert(d2)
     ELSE d2

----------------------------------------------------------------------------
(* applyChunkToOutput: scatter a processed chunk into the output buffer.   *)
(* The buffer is out = [outputData, writes]: writes is history kept for the *)
(* verification, the source byte (its index in the original buffer) and the *)
(* target index of every assignment outputData[index] = value, in order.    *)

\* outputData[index] = value on a typed array: an index outside the array is ignored
\* (the buffer is bound once, as o, so that it is evaluated once per assignment)
SetByte(out, index, value, src) ==
  CHOOSE written \in
    { [outputData |-> IF index >= 0 /\ index < Len(o.outputData)
                      THEN [o.outputData EXCEPT ![index + 1] = value]
                      ELSE o.outputData,
       writes |-> Append(o.writes, [src |-> src, dst |-> index])] : o \in {out} } : TRUE

\* the index computed with the row length of the source for every rotation
NewPixelIndex_WidthStride(pixelIndex, width, height, rotation) ==
  LET x == pixelIndex % width
      y == pixelIndex \div width
      newX == IF rotation = 90 THEN height - 1 - y
              ELSE IF rotation = 180 THEN width - 1 - x
              ELSE IF rotation = 270 THEN y
              ELSE x
      newY == IF rotation = 90 THEN x
              ELSE IF rotation = 180 THEN height - 1 - y
              ELSE IF rotation = 270 THEN width - 1 - x
              ELSE y
  IN newY * width + newX

\* the quarter turn without its flip: a transposition
NewPixelIndex_NoFlip(pixelIndex, width, height, rotation) ==
  LET x == pixelIndex % width
      y == pixelIndex \div width
      newX == IF rotation = 90 THEN y
              ELSE IF rotation = 180 THEN width - 1 - x
              ELSE IF rotation = 270 THEN y
              ELSE x
      newY == IF rotation = 90 THEN x
              ELSE IF rotation = 180 THEN height - 1 - y
              ELSE IF rotation = 270 THEN width - 1 - x
              ELSE y
  IN IF rotation = 90 \/ rotation = 270
     THEN newY * height + newX
     ELSE newY * width + newX

\* newPixelIndex of the source pixel pixelIndex of a width x height image
NewPixelIndex(pixelIndex, width, height, rotation) ==
  LET x == pixelIndex % width
      y == pixelIndex \div width
      newX == IF rotation = 90 THEN height - 1 - y
              ELSE IF rotation = 180 THEN width - 1 - x
              ELSE IF rotation = 270 THEN y
              ELSE x
      newY == IF rotation = 90 THEN x
              ELSE IF rotation = 180 THEN height - 1 - y
              ELSE IF rotation = 270 THEN width - 1 - x
              ELSE y
  IN IF rotation = 90 \/ rotation = 270
     THEN newY * height + newX
     ELSE newY * width + newX

\* the byte copy loop for rotation 0, from byte i of the chunk on
RECURSIVE CopyBytes(_, _, _, _)
CopyBytes(i, chunkData, out, startIndex) ==
  IF i >= Len(chunkData) THEN out
  ELSE CopyBytes(i + 1, chunkData,
                 SetByte(out, startIndex + i, chunkData[i + 1], startIndex + i), startIndex)

\* chunkData[k] read for a store into the output array: an index past the end of the
\* chunk reads undefined, which a Uint8ClampedArray stores as 0
ChunkByte(chunkData, k) == IF k < Len(chunkData) THEN chunkData[k + 1] ELSE 0

\* the pixel loop for the other rotations, from pixel i of the chunk on: it runs while
\* i < chunkData.length / 4, a quotient that is not rounded, so that the bytes of a
\* last partial pixel are copied too.  The test on o3.writes (never empty after a
\* write) evaluates the buffer at each iteration, so that the evaluation depth does
\* not grow with the length of the chunk.
RECURSIVE CopyPixels(_, _, _, _, _, _, _)
CopyPixels(i, chunkData, out, page, width, height, rotation) ==
  IF i * BytesPerPixel >= Len(chunkData) THEN out
  ELSE LET newIndex == NewPixelIndex(page.startPixel + i, width, height, rotation) * BytesPerPixel
           srcIndex == i * BytesPerPixel
           origin == (page.startPixel + i) * BytesPerPixel
           o0 == SetByte(out, newIndex, ChunkByte(chunkData, srcIndex), origin)
           o1 == SetByte(o0, newIndex + 1, ChunkByte(chunkData, srcIndex + 1), origin + 1)
           o2 == SetByte(o1, newIndex + 2, ChunkByte(chunkData, srcIndex + 2), origin + 2)
           o3 == SetByte(o2, newIndex + 3, ChunkByte(chunkData, srcIndex + 3), origin + 3)
       IN IF Len(o3.writes) = 0 THEN out
          ELSE CopyPixels(i + 1, chunkData, o3, page, width, height, rotation)

applyChunkToOutput(chunkData, out, page, width, height, rotation) ==
  IF rotation = 0
  THEN CopyBytes(0, chunkData, out, page.startIndex)
  ELSE CopyPixels(0, chunkData, out, page, width, height, rotation)

----------------------------------------------------------------------------
(* Runs of processImageChunks, called directly or by the editor's renderImage *)

NoAdjustments == [brightness |-> 0, contrast |-> 0]

\* what surrounds a call of renderImage.  rest is the synchronous code the task that
\* made the call still has to run, which it does as soon as the render awaits: none, or
\* the saveState that the click handlers of the filter and rotate buttons emit after
\* their request.  tail is the signal the caller of renderImage emits once the render
\* is over: image:loaded for loadImage, history:updated for undo and redo.
NoHandler == [rest |-> "none", tail |-> "none"]

\* a free slot of runs
NoRun == [pc |-> "idle", caller |-> "none", image |-> NoImage, adjustments |-> NoAdjustments,
          filter |-> "none", rotation |-> 0, pageIds |-> <<>>, pageCount |-> 0, idx |-> 0,
          outputData |-> <<>>, writes |-> <<>>, pageEpoch |-> 0,
          rest |-> "none", tail |-> "none"]

RunIds == 1..MaxInFlight

InFlight == { r \in RunIds : runs[r].pc # "idle" }

\* the memory manager as the operators above see it; emitted starts empty in every step
M == [pageTable |-> pageTable, stats |-> stats, emitted |-> <<>>]

\* new Uint8ClampedArray(n)
Zeros(n) == [j \in 1..n |-> 0]

\* the state of processImageChunks when it reaches its page loop (lines 102-119);
\* pageIds is Array.from(pageTable.keys()), the page ids of the table in the order
\* storeImage inserted them
NewRun(caller, image, adjustments, filter, rotation, table, handler) ==
  [pc |-> "acquire", caller |-> caller, image |-> image, adjustments |-> adjustments,
   filter |-> filter, rotation |-> rotation,
   pageIds |-> [i \in 1..Len(table) |-> i - 1], pageCount |-> Len(table), idx |-> 0,
   outputData |-> Zeros(image.width * image.height * BytesPerPixel),
   writes |-> <<>>, pageEpoch |-> 0,
   rest |-> handler.rest, tail |-> handler.tail]

\* the lowest free slot of runs
FreeSlot == CHOOSE q \in RunIds :
              runs[q].pc = "idle" /\ \A p \in RunIds : runs[p].pc = "idle" => q <= p

\* const pageId = pageIds[i], line 123, for the iteration the run is at
PageId(run) == run.pageIds[run.idx + 1]

\* a fault counted as a hit too
CountFault_Both(m) == [m EXCEPT !.stats.pageFaults = @ + 1, !.stats.pageHits = @ + 1]

\* a hit that takes one from the counter
CountHit_Down(m) == [m EXCEPT !.stats.pageHits = @ - 1]

\* a fault that is not counted
CountFault_None(m) == m

\* stats.pageHits++ and stats.pageFaults++ of the page loop
CountHit(m) == [m EXCEPT !.stats.pageHits = @ + 1]
CountFault(m) == [m EXCEPT !.stats.pageFaults = @ + 1]

\* the transforms applied to the stored bytes themselves
ProcessPage_InPlace(m, run, now) ==
  LET has == PageId(run) < Len(m.pageTable)
      page == m.pageTable[PageId(run) + 1]
  IN IF ~has \/ page.data = Null
     THEN [m |-> m, run |-> [run EXCEPT !.idx = @ + 1]]
     ELSE LET processedChunkData == processChunk(page.data, run.adjustments, run.filter)
              out == applyChunkToOutput(processedChunkData,
                        [outputData |-> run.outputData, writes |-> run.writes], page,
                        run.image.width, run.image.height, run.rotation)
          IN [m |-> [m EXCEPT !.pageTable[PageId(run) + 1].lastAccessed = now,
                              !.pageTable[PageId(run) + 1].data = processedChunkData],
              run |-> [run EXCEPT !.idx = @ + 1,
                                  !.outputData = out.outputData,
                                  !.writes = out.writes]]

\* the loop passing over the page after the one it processed
ProcessPage_SkipNext(m, run, now) ==
  LET has == PageId(run) < Len(m.pageTable)
      page == m.pageTable[PageId(run) + 1]
  IN IF ~has \/ page.data = Null
     THEN [m |-> m, run |-> [run EXCEPT !.idx = @ + 2]]
     ELSE LET processedChunkData == processChunk(page.data, run.adjustments, run.filter)
              out == applyChunkToOutput(processedChunkData,
                        [outputData |-> run.outputData, writes |-> run.writes], page,
                        run.image.width, run.image.height, run.rotation)
          IN [m |-> [m EXCEPT !.pageTable[PageId(run) + 1].lastAccessed = now],
              run |-> [run EXCEPT !.idx = @ + 2,
                                  !.outputData = out.outputData,
                                  !.writes = out.writes]]

\* lines 131-141 of processImageChunks for the page pageIds[run.idx], read at time now:
\* the page is skipped when it is missing or has no data
\* (the processed chunk and the buffer are bound once, so that each is evaluated once)
ProcessPage(m, run, now) ==
  LET has == PageId(run) < Len(m.pageTable)
      page == m.pageTable[PageId(run) + 1]
  IN IF ~has \/ page.data = Null
     THEN [m |-> m, run |-> [run EXCEPT !.idx = @ + 1]]
     ELSE CHOOSE res \in
            { [m |-> [m EXCEPT !.pageTable[PageId(run) + 1].lastAccessed = now],
               run |-> [run EXCEPT !.idx = @ + 1,
                                   !.outputData = out.outputData,
                                   !.writes = out.writes]] :
              out \in
                { applyChunkToOutput(processedChunkData,
                    [outputData |-> run.outputData, writes |-> run.writes], page,
                    run.image.width, run.image.height, run.rotation) :
                  processedChunkData \in
                    { processChunk(page.data, run.adjustments, run.filter) } } } : TRUE

\* the end of swapInPage without its swapped-in signal
FinishSwapIn_NoSignal(m, pageId, inTable, now) ==
  LET page == m.pageTable[pageId + 1]
      m1 == IF inTable
            THEN [m EXCEPT !.pageTable[pageId + 1].data = Zeros(page.endIndex - page.startIndex),
                           !.pageTable[pageId + 1].status = "active",
                           !.pageTable[pageId + 1].lastAccessed = now]
            ELSE m
  IN [m1 EXCEPT !.stats.activePages = @ + 1,
                !.stats.inactivePages = @ - 1,
                !.stats.memoryUsage = @ + pageSize]

\* swapInPage after its await (lines 281-296) for the page object it read before the
\* await, which is in the table only if the table was not rebuilt since (inTable)
FinishSwapIn(m, pageId, inTable, now) ==
  LET page == m.pageTable[pageId + 1]
      m1 == IF inTable
            THEN [m EXCEPT !.pageTable[pageId + 1].data = Zeros(page.endIndex - page.startIndex),
                           !.pageTable[pageId + 1].status = "active",
                           !.pageTable[pageId + 1].lastAccessed = now]
            ELSE m
      m2 == [m1 EXCEPT !.stats.activePages = @ + 1,
                       !.stats.inactivePages = @ - 1,
                       !.stats.memoryUsage = @ + pageSize]
  IN Emit(m2, "memory:page:swapped-in", pageId)

\* a request of the editor is accepted when the thread is free and a slot is left
CanRequest ==
  /\ cpu = 0
  /\ nreq < MaxRequests
  /\ \E r \in RunIds : runs[r].pc = "idle"

\* the thread is free: a call of the memory manager's API can be made
ThreadFree == cpu = 0

\* a slot of the model is left for one more run
SlotLeft == \E r \in RunIds : runs[r].pc = "idle"

\* no run is in flight
Quiescent == InFlight = {}

----------------------------------------------------------------------------
(* Steps of a run *)

\* a page load whose timer is never set
simulatePageLoad_NoTimer(pending, r, now) == pending

\* simulatePageLoad called at time now: setTimeout(resolve, 5) queues the timer that
\* resumes run r, due one load delay later
simulatePageLoad(pending, r, now) == Append(pending, [run |-> r, due |-> now + LoadDelay])

\* one iteration of the page loop of processImageChunks, up to its await if the page faults
AcquireStep(r) ==
  /\ cpu = r
  /\ runs[r].pc = "acquire"
  /\ runs[r].idx < runs[r].pageCount
  /\ LET run == runs[r]
         has == PageId(run) < Len(pageTable)
     IN IF ~has \/ pageTable[PageId(run) + 1].status = "inactive"
        THEN \* swapInPage up to its first await
             LET m1 == IF NoRoom(M) THEN swapOutLRUPage(M) ELSE M
             IN IF ~has
                THEN \* page not found: swapInPage returns, the fault is counted, the page skipped
                     \E res \in { ProcessPage(CountFault(m1), run, clock) } :
                        /\ pageTable' = res.m.pageTable
                        /\ stats' = res.m.stats
                        /\ emitted' = res.m.emitted
                        /\ runs' = [runs EXCEPT ![r] = res.run]
                        /\ UNCHANGED <<cpu, timers, clock>>
                ELSE IF m1.pageTable[PageId(run) + 1].status = "active"
                THEN \* already active: only the timestamp is refreshed
                     \E now \in Now :
                     LET m2 == [m1 EXCEPT !.pageTable[PageId(run) + 1].lastAccessed = now]
                     IN \E res \in { ProcessPage(CountFault(m2), run, now) } :
                        /\ pageTable' = res.m.pageTable
                        /\ stats' = res.m.stats
                        /\ emitted' = res.m.emitted
                        /\ runs' = [runs EXCEPT ![r] = res.run]
                        /\ clock' = now
                        /\ UNCHANGED <<cpu, timers>>
                ELSE \* await simulatePageLoad(): the run leaves the thread, to the
                     \* rest of the task that called it if there is one
                     /\ pageTable' = m1.pageTable
                     /\ stats' = m1.stats
                     /\ emitted' = m1.emitted
                     /\ runs' = [runs EXCEPT ![r].pc = "loading", ![r].pageEpoch = epoch]
                     /\ timers' = simulatePageLoad(timers, r, clock)
                     /\ cpu' = IF run.rest # "none" THEN r ELSE 0
                     /\ UNCHANGED clock
        ELSE \* page hit
             \E now \in Now :
             \E res \in { ProcessPage(CountHit(M), run, now) } :
                /\ pageTable' = res.m.pageTable
                /\ stats' = res.m.stats
                /\ emitted' = res.m.emitted
                /\ runs' = [runs EXCEPT ![r] = res.run]
                /\ clock' = now
                /\ UNCHANGED <<cpu, timers>>
  /\ UNCHANGED <<memoryLimit, pageSize, epoch, originalImage, currentImage,
                 currentAdjustments, currentFilter, currentRotation, lastRun, nreq>>
  /\ UNCHANGED uiVars

\* the times the callback of a timer can read: its due time or, the thread having
\* been busy, the time the clock has reached since, or later
FiringTimes(due) ==
  { t \in Max(clock, due)..(Max(clock, due) + MaxLate) : t <= MaxClock }

\* the timer of simulatePageLoad fires: the rest of swapInPage, then the rest of the
\* loop iteration, at the time now that the callback reads, and the loop goes on
LoadDone(r) ==
  /\ cpu = 0
  /\ timers # <<>>
  /\ Head(timers).run = r
  /\ runs[r].pc = "loading"
  /\ \E now \in FiringTimes(Head(timers).due) :
     LET run == runs[r]
     IN \E m1 \in { FinishSwapIn(M, PageId(run), run.pageEpoch = epoch, now) } :
        \E res \in { ProcessPage(CountFault(m1), run, now) } :
        /\ pageTable' = res.m.pageTable
        /\ stats' = res.m.stats
        /\ emitted' = res.m.emitted
        /\ runs' = [runs EXCEPT ![r] = [res.run EXCEPT !.pc = "acquire"]]
        /\ clock' = now
  /\ timers' = Tail(timers)
  /\ cpu' = r
  /\ UNCHANGED <<memoryLimit, pageSize, epoch, originalImage, currentImage,
                 currentAdjustments, currentFilter, currentRotation, lastRun, nreq>>
  /\ UNCHANGED uiVars

\* the output width without the swap of the quarter turns
NewWidth_NoSwap(run) == run.image.width

\* the output dimensions of processImageChunks
NewWidth(run) == IF run.rotation % 180 # 0 THEN run.image.height ELSE run.image.width
NewHeight(run) == IF run.rotation % 180 # 0 THEN run.image.width ELSE run.image.height

\* the ImageData processImageChunks returns
OutputImageData(run) ==
  [width |-> NewWidth(run), height |-> NewHeight(run), data |-> run.outputData]

\* the page loop is over (lines 144-150): processImageChunks emits the statistics and
\* returns its ImageData.  A direct call ends here; for a render the continuations of
\* processImage and renderImage wait behind what is left of the running task.
FinishRun(r) ==
  /\ cpu = r
  /\ runs[r].pc = "acquire"
  /\ runs[r].idx >= runs[r].pageCount
  /\ lastRun' = [runs[r] EXCEPT !.pc = "done"]
  /\ emitted' = updateMemoryStats(M).emitted
  /\ IF runs[r].caller = "editor"
     THEN /\ runs' = [runs EXCEPT ![r].pc = "returned"]
          /\ cpu' = r
     ELSE /\ runs' = [runs EXCEPT ![r] = NoRun]
          /\ cpu' = 0
  /\ UNCHANGED <<memoryLimit, pageSize, pageTable, stats, epoch, clock, originalImage,
                 currentImage, currentAdjustments, currentFilter, currentRotation,
                 timers, nreq>>
  /\ UNCHANGED uiVars

\* the pixel a canvas gives back for a pixel put into it with alpha a, its colours
\* kept premultiplied in between: c * a / 255 rounded by the canvas (to the nearest
\* integer or down), and divided out again
Premultiplied(pixel, rounding) ==
  LET a == pixel[4]
      pre(c) == IF rounding = "nearest" THEN RoundDiv(c * a, 255) ELSE (c * a) \div 255
      post(c) == IF rounding = "nearest" THEN Min(255, RoundDiv(c * 255, a))
                 ELSE Min(255, (c * 255) \div a)
  IN << post(pre(pixel[1])), post(pre(pixel[2])), post(pre(pixel[3])), a >>

\* getImageData of a pixel after putImageData: an opaque pixel comes back as it was
\* put; a pixel that is not opaque comes back as it was put or as the premultiplied
\* store of the canvas makes it, transparent black when its alpha is 0
CanvasPixels(pixel) ==
  IF pixel[4] = 255 THEN { pixel }
  ELSE IF pixel[4] = 0 THEN { pixel, <<0, 0, 0, 0>> }
  ELSE { pixel, Premultiplied(pixel, "nearest"), Premultiplied(pixel, "down") }

\* the byte arrays getImageData can return for the bytes put, from pixel i on
RECURSIVE CanvasData(_, _)
CanvasData(data, i) ==
  IF i * BytesPerPixel >= Len(data) THEN { <<>> }
  ELSE { pixel \o after : pixel \in CanvasPixels(SubSeq(data, i * BytesPerPixel + 1,
                                                         (i + 1) * BytesPerPixel)),
                          after \in CanvasData(data, i + 1) }

\* tempCtx.putImageData(image, 0, 0) on a canvas of the size of the image, then
\* getImageData(0, 0, width, height): the images that can come back
CanvasReadings(image) ==
  { [width |-> image.width, height |-> image.height, data |-> d] :
      d \in CanvasData(image.data, 0) }

\* the signals of the caller of renderImage once the render is over
TailSignals(tail) == IF tail = "none" THEN <<>> ELSE << Signal(tail, -1) >>

\* the ways a render ends once processImageChunks has returned: the try block of
\* renderImage runs to its end; processImage throws at its temporary canvas, so that
\* the await of line 115 rejects; setCanvasSize or drawImage throws, after the
\* assignment of line 115; a listener of image:rendering:complete throws, and
\* eventBus.emit, which catches nothing, throws in the try block after the drawing
RenderOutcomes == { "complete", "processImage", "draw", "listener" }

\* the signals of the end of a render: image:rendering:complete of line 133 when
\* the emit is reached, image:rendering:error of the catch block (lines 134-137)
\* when something was thrown
EndSignals(outcome) ==
  (IF outcome \in {"complete", "listener"}
   THEN << Signal("image:rendering:complete", -1) >> ELSE <<>>)
  \o (IF outcome # "complete"
      THEN << Signal("image:rendering:error", -1) >> ELSE <<>>)

\* the continuations of processImage (lines 150-153 of the image processor) and of
\* renderImage (lines 115-137 of the editor): the ImageData goes through a canvas,
\* what comes back is stored as currentImage and drawn, the complete signal is
\* emitted; what is thrown on the way is caught, and the error signal emitted with
\* currentImage as it is by then; the caller of renderImage, to which nothing is
\* thrown, emits its own signal
RenderEnd(r, outcome) ==
  /\ cpu = r
  /\ runs[r].pc = "returned"
  /\ runs[r].rest = "none"
  /\ IF outcome = "processImage"
     THEN currentImage' = currentImage
     ELSE currentImage' \in CanvasReadings(OutputImageData(runs[r]))
  /\ emitted' = EndSignals(outcome) \o TailSignals(runs[r].tail)
  /\ runs' = [runs EXCEPT ![r] = NoRun]
  /\ cpu' = 0
  /\ UNCHANGED <<memoryLimit, pageSize, pageTable, stats, epoch, clock, originalImage,
                 currentAdjustments, currentFilter, currentRotation, timers, lastRun, nreq>>
  /\ UNCHANGED uiVars

\* a render in which nothing throws: the canvases of the page take every ImageData
\* the processor makes, and no listener of the application throws
RenderDone(r) == RenderEnd(r, "complete")

\* a render in which something throws
RenderThrows(r) == \E outcome \in RenderOutcomes \ {"complete"} : RenderEnd(r, outcome)

----------------------------------------------------------------------------
(* Calls of the memory manager by the holder of an image *)

Request(brightness, contrast, filter, rotation) ==
  [adjustments |-> [brightness |-> brightness, contrast |-> contrast],
   filter |-> filter, rotation |-> rotation]

\* the transform requests of the calls: the identity among them, every rotation,
\* every filter, both adjustments
TransformRequests ==
  { Request(0, 0, "none", 0), Request(0, 0, "none", 180), Request(0, 0, "invert", 90),
    Request(20, 0, "grayscale", 0), Request(20, 50, "sepia", 270) }

\* memoryManager.storeImage(image); ts are the timestamps its loop reads
StoreImageCall(image, ts) ==
  /\ ThreadFree
  /\ LET m == storeImage(image, ts, M)
     IN /\ pageTable' = m.pageTable
        /\ stats' = m.stats
        /\ emitted' = m.emitted
  /\ epoch' = epoch + 1
  /\ clock' = ts[Len(ts)]
  /\ originalImage' = image
  /\ nreq' = nreq + 1
  /\ UNCHANGED <<memoryLimit, pageSize, currentImage, currentAdjustments, currentFilter,
                 currentRotation, runs, timers, cpu, lastRun>>
  /\ UNCHANGED uiVars

\* memoryManager.processImageChunks(image, adjustments, filter, rotation) for the stored image
ProcessImageChunksCall(request) ==
  /\ ThreadFree
  /\ SlotLeft
  /\ originalImage # NoImage
  /\ runs' = [runs EXCEPT ![FreeSlot] =
                NewRun("caller", originalImage, request.adjustments, request.filter,
                       request.rotation, pageTable, NoHandler)]
  /\ cpu' = FreeSlot
  /\ emitted' = <<>>
  /\ nreq' = nreq + 1
  /\ UNCHANGED <<memoryLimit, pageSize, pageTable, stats, epoch, clock, originalImage,
                 currentImage, currentAdjustments, currentFilter, currentRotation,
                 timers, lastRun>>
  /\ UNCHANGED uiVars

\* memoryManager.clearAllPages(): the table is emptied, the statistics are zeroed and
\* emitted; a run that waits for a load keeps the page ids it has read
ClearAllPagesCall ==
  /\ ThreadFree
  /\ LET m == clearAllPages(M)
     IN /\ pageTable' = m.pageTable
        /\ stats' = m.stats
        /\ emitted' = m.emitted
  /\ epoch' = epoch + 1
  /\ nreq' = nreq + 1
  /\ UNCHANGED <<memoryLimit, pageSize, clock, originalImage, currentImage,
                 currentAdjustments, currentFilter, currentRotation, runs, timers, cpu,
                 lastRun>>
  /\ UNCHANGED uiVars

----------------------------------------------------------------------------
(* HistoryManager.  Its methods act on h = [states, currentIndex, maxStates];   *)
(* states[k + 1] is the element k of the array.                                *)

\* null
NoState == [adjustments |-> NoAdjustments, filter |-> "null", rotation |-> -1]

\* new HistoryManager(maxStates)
HistoryManager(maxStates) == [states |-> <<>>, currentIndex |-> -1, maxStates |-> maxStates]

\* JSON.parse(JSON.stringify(obj)) of a state made of numbers and strings: an equal value
deepClone(obj) == obj

canUndo(h) == h.currentIndex > 0

canRedo(h) == h.currentIndex < Len(h.states) - 1

\* addState without the limit on the number of states
addState_NoLimit(h, state) ==
  LET kept == IF h.currentIndex < Len(h.states) - 1
              THEN SubSeq(h.states, 1, h.currentIndex + 1)
              ELSE h.states
      pushed == Append(kept, deepClone(state))
  IN [h EXCEPT !.states = pushed, !.currentIndex = Len(pushed) - 1]

\* addState that keeps the states ahead of the current one
addState_KeepFuture(h, state) ==
  LET pushed == Append(h.states, deepClone(state))
  IN IF Len(pushed) > h.maxStates
     THEN [h EXCEPT !.states = Tail(pushed), !.currentIndex = Len(pushed) - 2]
     ELSE [h EXCEPT !.states = pushed, !.currentIndex = Len(pushed) - 1]

\* addState(state): the states after currentIndex are dropped, the state is pushed and
\* made current, and the oldest state is shifted out when the array is over maxStates
addState(h, state) ==
  LET kept == IF h.currentIndex < Len(h.states) - 1
              THEN SubSeq(h.states, 1, h.currentIndex + 1)
              ELSE h.states
      pushed == Append(kept, deepClone(state))
  IN IF Len(pushed) > h.maxStates
     THEN [h EXCEPT !.states = Tail(pushed), !.currentIndex = Len(pushed) - 2]
     ELSE [h EXCEPT !.states = pushed, !.currentIndex = Len(pushed) - 1]

\* undo(): [h, returned]
undo(h) ==
  IF ~canUndo(h) THEN [h |-> h, returned |-> NoState]
  ELSE [h |-> [h EXCEPT !.currentIndex = @ - 1],
        returned |-> deepClone(h.states[h.currentIndex])]

\* redo that returns the next state and leaves currentIndex
redo_NoStep(h) ==
  IF ~canRedo(h)
  THEN [h |-> h, returned |-> NoState]
  ELSE [h |-> h, returned |-> deepClone(h.states[h.currentIndex + 2])]

\* redo(): [h, returned]
redo(h) ==
  IF ~canRedo(h) THEN [h |-> h, returned |-> NoState]
  ELSE [h |-> [h EXCEPT !.currentIndex = @ + 1],
        returned |-> deepClone(h.states[h.currentIndex + 2])]

\* clear()
clear(h) == [h EXCEPT !.states = <<>>, !.currentIndex = -1]

\* the editor keeps 10 states
EditorMaxStates == 10

\* no slider timer pending
NoTimer == [kind |-> "none", value |-> 0]

\* the tools UI and the sliders of the page as they are set up: the debounce timer, the
\* values of the two range inputs, and the inputs moved since their last change event
ToolsUIStart == [sliderTimer |-> NoTimer, brightness |-> 0, contrast |-> 0, moved |-> {}]

\* new EventBus(), seen for one event name: events is the array events[event], empty
\* when the bus has no entry for the event; listeners is every callback ever
\* subscribed and calls[id] the number of times the callback id was called
EventBusStart == [events |-> <<>>, listeners |-> <<>>, calls |-> <<>>]

\* a callback given to on (kind "on") or to once (kind "once"); one that reemits emits
\* the same event again the first time it is called
Listener(id, kind, reemits) == [id |-> id, kind |-> kind, reemits |-> reemits]

\* on(event, callback): the callback is pushed on the array of the event
on(bus, l) ==
  [bus EXCEPT !.events = Append(@, l),
              !.listeners = Append(@, l),
              !.calls = Append(@, 0)]

\* off(event, callback): the array is replaced by a copy without the callback
off(bus, l) == [bus EXCEPT !.events = SelectSeq(@, LAMBDA x : x # l)]

\* once(event, callback): on(event, onceCallback)
once(bus, l) == on(bus, l)

RECURSIVE emit(_)
RECURSIVE forEach(_, _, _)
RECURSIVE invoke(_, _)

\* emit(event, data): nothing without listeners, else forEach over the array the bus
\* holds at this moment
emit(bus) ==
  IF bus.events = <<>> THEN bus ELSE forEach(bus, bus.events, 1)

\* Array.prototype.forEach from position i on, over the array it was called on
forEach(bus, array, i) ==
  IF i > Len(array)
  THEN bus
  ELSE forEach(invoke(bus, array[i]), array, i + 1)

\* the call of one element of the array: the callback itself for kind "on"; for kind
\* "once" onceCallback, which calls the callback and then off(event, onceCallback)
invoke(bus, l) ==
  LET first == bus.calls[l.id] = 0
      called == [bus EXCEPT !.calls[l.id] = @ + 1]
      back == IF l.reemits /\ first THEN emit(called) ELSE called
  IN IF l.kind = "once" THEN off(back, l) ELSE back

\* the state around the memory manager when the page is set up
UIStart ==
  /\ historyManager = HistoryManager(EditorMaxStates)
  /\ returned = NoState
  /\ toolsUI = ToolsUIStart
  /\ eventBus = EventBusStart

----------------------------------------------------------------------------
(* Editor requests *)

\* renderImage called with the editor state (image, adjustments, filter, rotation) by
\* a handler: without an image it returns at once, and its caller goes on to its own
\* signal; else the start signal and the call of processImageChunks
renderImage(m, image, adjustments, filter, rotation, handler) ==
  IF image = NoImage
  THEN /\ runs' = runs
       /\ cpu' = cpu
       /\ emitted' = m.emitted \o TailSignals(handler.tail)
  ELSE /\ runs' = [runs EXCEPT ![FreeSlot] =
                     NewRun("editor", image, adjustments, filter, rotation, m.pageTable,
                            handler)]
       /\ cpu' = FreeSlot
       /\ emitted' = Append(m.emitted, Signal("image:rendering:start", -1))

\* the state saveToHistory saves
EditState(adjustments, filter, rotation) ==
  [adjustments |-> adjustments, filter |-> filter, rotation |-> rotation]

\* saveToHistory(): historyManager.addState of the current adjustments, filter and
\* rotation, then the history:updated signal
saveToHistory(h, adjustments, filter, rotation) ==
  addState(h, EditState(adjustments, filter, rotation))

\* the body of img.onload in loadImage: storeImage, the reset of the editing state,
\* historyManager.clear(), saveToHistory() and renderImage(), after which image:loaded
\* is emitted
loadImage(image, ts) ==
  /\ LET m == storeImage(image, ts, M)
     IN /\ pageTable' = m.pageTable
        /\ stats' = m.stats
        /\ renderImage(Emit(m, "history:updated", -1), image, NoAdjustments, "none", 0,
                       [rest |-> "none", tail |-> "image:loaded"])
  /\ epoch' = epoch + 1
  /\ clock' = ts[Len(ts)]
  /\ originalImage' = image
  /\ currentAdjustments' = NoAdjustments
  /\ currentFilter' = "none"
  /\ currentRotation' = 0
  /\ historyManager' = saveToHistory(clear(historyManager), NoAdjustments, "none", 0)
  /\ UNCHANGED <<memoryLimit, pageSize, currentImage, timers, lastRun>>
  /\ UNCHANGED <<returned, toolsUI, eventBus>>

LoadImage(image, ts) ==
  /\ CanRequest
  /\ loadImage(image, ts)
  /\ nreq' = nreq + 1

\* updateAdjustments(adjustments): the given keys replace those of currentAdjustments
updateAdjustments(adjustments) ==
  /\ LET merged == [k \in {"brightness", "contrast"} |->
                      IF k \in DOMAIN adjustments THEN adjustments[k] ELSE currentAdjustments[k]]
     IN /\ currentAdjustments' = merged
        /\ renderImage(M, originalImage, merged, currentFilter, currentRotation, NoHandler)
  /\ UNCHANGED <<memoryLimit, pageSize, pageTable, stats, epoch, clock, originalImage,
                 currentImage, currentFilter, currentRotation, timers, lastRun>>

UpdateAdjustments(adjustments) ==
  /\ CanRequest
  /\ updateAdjustments(adjustments)
  /\ nreq' = nreq + 1
  /\ UNCHANGED uiVars

\* applyFilter(filter), called by a handler
applyFilter(filter, handler) ==
  /\ currentFilter' = filter
  /\ renderImage(M, originalImage, currentAdjustments, filter, currentRotation, handler)
  /\ UNCHANGED <<memoryLimit, pageSize, pageTable, stats, epoch, clock, originalImage,
                 currentImage, currentAdjustments, currentRotation, timers, lastRun>>

ApplyFilter(filter) ==
  /\ CanRequest
  /\ applyFilter(filter, NoHandler)
  /\ nreq' = nreq + 1
  /\ UNCHANGED uiVars

\* rotateImage without the normalisation of a negative remainder
Rotated_NoNormalize(rotation, direction) ==
  LET sum == rotation + (IF direction = "right" THEN 90 ELSE -90)
  IN IF sum < 0 THEN 0 - ((0 - sum) % 360) ELSE sum % 360

\* currentRotation after rotateImage(direction)
Rotated(rotation, direction) ==
  LET sum == rotation + (IF direction = "right" THEN 90 ELSE -90)
      \* JavaScript % keeps the sign of the dividend
      rem == IF sum < 0 THEN 0 - ((0 - sum) % 360) ELSE sum % 360
  IN IF rem < 0 THEN rem + 360 ELSE rem

\* rotateImage(direction), called by a handler
rotateImage(direction, handler) ==
  /\ currentRotation' = Rotated(currentRotation, direction)
  /\ renderImage(M, originalImage, currentAdjustments, currentFilter, currentRotation',
                 handler)
  /\ UNCHANGED <<memoryLimit, pageSize, pageTable, stats, epoch, clock, originalImage,
                 currentImage, currentAdjustments, currentFilter, timers, lastRun>>

RotateImage(direction) ==
  /\ CanRequest
  /\ rotateImage(direction, NoHandler)
  /\ nreq' = nreq + 1
  /\ UNCHANGED uiVars

\* the image:modify handler for type saveState: saveToHistory()
saveState ==
  /\ historyManager' = saveToHistory(historyManager, currentAdjustments, currentFilter,
                                     currentRotation)
  /\ emitted' = << Signal("history:updated", -1) >>
  /\ UNCHANGED <<memoryLimit, pageSize, pageTable, stats, epoch, clock, originalImage,
                 currentImage, currentAdjustments, currentFilter, currentRotation,
                 runs, timers, cpu, lastRun>>
  /\ UNCHANGED <<returned, toolsUI, eventBus>>

\* the task that called renderImage goes on while the render awaits: the click
\* handlers of the filter and rotate buttons emit image:modify of type saveState,
\* handled by saveToHistory
RestOfTask(r) ==
  /\ cpu = r
  /\ runs[r].pc \in {"loading", "returned"}
  /\ runs[r].rest = "saveState"
  /\ historyManager' = saveToHistory(historyManager, currentAdjustments, currentFilter,
                                     currentRotation)
  /\ emitted' = << Signal("history:updated", -1) >>
  /\ runs' = [runs EXCEPT ![r].rest = "none"]
  /\ cpu' = IF runs[r].pc = "loading" THEN 0 ELSE r
  /\ UNCHANGED <<memoryLimit, pageSize, pageTable, stats, epoch, clock, originalImage,
                 currentImage, currentAdjustments, currentFilter, currentRotation,
                 timers, lastRun, nreq>>
  /\ UNCHANGED <<returned, toolsUI, eventBus>>

\* the saveState a click handler emits when its request started no render (no
\* image is loaded): the state is saved in the same step
SavedAtOnce(filter, rotation) ==
  /\ historyManager' = saveToHistory(historyManager, currentAdjustments, filter, rotation)
  /\ currentFilter' = filter
  /\ currentRotation' = rotation
  /\ emitted' = << Signal("history:updated", -1) >>
  /\ UNCHANGED <<memoryLimit, pageSize, pageTable, stats, epoch, clock, originalImage,
                 currentImage, currentAdjustments, runs, timers, cpu, lastRun>>
  /\ UNCHANGED <<returned, toolsUI, eventBus>>

\* the click handler of a filter button: image:modify of type filter, then of type
\* saveState
clickFilter(filter) ==
  IF originalImage = NoImage
  THEN SavedAtOnce(filter, currentRotation)
  ELSE /\ applyFilter(filter, [rest |-> "saveState", tail |-> "none"])
       /\ UNCHANGED uiVars

\* the click handler of a rotate button: image:modify of type rotation, then of type
\* saveState
clickRotate(direction) ==
  IF originalImage = NoImage
  THEN SavedAtOnce(currentFilter, Rotated(currentRotation, direction))
  ELSE /\ rotateImage(direction, [rest |-> "saveState", tail |-> "none"])
       /\ UNCHANGED uiVars

\* the editing state taken from a state of the history, and the render that follows,
\* after which history:updated is emitted (undo and redo of the editor, after their
\* call of the history manager)
restoreState(res) ==
  /\ historyManager' = res.h
  /\ returned' = res.returned
  /\ currentAdjustments' = res.returned.adjustments
  /\ currentFilter' = res.returned.filter
  /\ currentRotation' = res.returned.rotation
  /\ renderImage(M, originalImage, currentAdjustments', currentFilter', currentRotation',
                 [rest |-> "none", tail |-> "history:updated"])
  /\ UNCHANGED <<memoryLimit, pageSize, pageTable, stats, epoch, clock, originalImage,
                 currentImage, timers, lastRun>>
  /\ UNCHANGED <<toolsUI, eventBus>>

\* undo() of the editor: nothing when canUndo() is false
editorUndo ==
  IF ~canUndo(historyManager)
  THEN UNCHANGED vars
  ELSE restoreState(undo(historyManager))

\* redo() of the editor: nothing when canRedo() is false
editorRedo ==
  IF ~canRedo(historyManager)
  THEN UNCHANGED vars
  ELSE restoreState(redo(historyManager))

\* getImageData(0, 0, width, height) after putImageData(image, -x, -y) on a new canvas:
\* what the canvas can give back for the pixels of the image from (x, y) on,
\* transparent black outside the image
Cropped(image, x, y, width, height) ==
  CanvasReadings(
    [width |-> width, height |-> height,
     data |-> [j \in 1..(width * height * BytesPerPixel) |->
                 LET p == (j - 1) \div BytesPerPixel
                     sx == x + (p % width)
                     sy == y + (p \div width)
                 IN IF sx < image.width /\ sy < image.height
                    THEN image.data[(sy * image.width + sx) * BytesPerPixel
                                    + ((j - 1) % BytesPerPixel) + 1]
                    ELSE 0]])

\* cropImage(x, y, width, height): nothing without a currentImage; else the crop of
\* currentImage becomes originalImage, the rotation is reset, the state is saved,
\* the image is stored and rendered
cropImage(x, y, width, height, ts) ==
  /\ currentImage # NoImage
  /\ \E image \in Cropped(currentImage, x, y, width, height) :
     LET m == storeImage(image, ts, Emit(M, "history:updated", -1))
     IN
     /\ originalImage' = image
     /\ currentRotation' = 0
     /\ historyManager' = saveToHistory(historyManager, currentAdjustments, currentFilter, 0)
     /\ pageTable' = m.pageTable
     /\ stats' = m.stats
     /\ renderImage(m, image, currentAdjustments, currentFilter, 0, NoHandler)
     /\ epoch' = epoch + 1
     /\ clock' = ts[Len(ts)]
     /\ UNCHANGED <<memoryLimit, pageSize, currentImage, currentAdjustments, currentFilter,
                    timers, lastRun>>
     /\ UNCHANGED <<returned, toolsUI, eventBus>>

\* the source pixel under the centre of pixel p of a copy scaled to width x height
NearestPixel(image, width, height, p) ==
  LET sx == ((2 * (p % width) + 1) * image.width) \div (2 * width)
      sy == ((2 * (p \div width) + 1) * image.height) \div (2 * height)
  IN sy * image.width + sx

\* the mean of a channel over the pixels of the image
RECURSIVE ChannelSum(_, _, _)
ChannelSum(image, c, p) ==
  IF p = image.width * image.height THEN 0
  ELSE image.data[p * BytesPerPixel + c] + ChannelSum(image, c, p + 1)

\* drawImage of the image scaled to width x height, then getImageData.  How the
\* canvas interpolates is left to the browser: each pixel of the copy is the source
\* pixel under its centre, or, for a copy of another size, the pixels are smoothed,
\* here to their mean
Resized(image, width, height) ==
  LET bytes == 1..(width * height * BytesPerPixel)
      channel(j) == ((j - 1) % BytesPerPixel) + 1
      nearest == [j \in bytes |->
                    image.data[NearestPixel(image, width, height, (j - 1) \div BytesPerPixel)
                                 * BytesPerPixel + channel(j)]]
      smooth == [j \in bytes |->
                   RoundDiv(ChannelSum(image, channel(j), 0), image.width * image.height)]
      copies == IF width = image.width /\ height = image.height THEN { nearest }
                ELSE { nearest, smooth }
  IN UNION { CanvasReadings([width |-> width, height |-> height, data |-> d]) :
               d \in copies }

\* resizeImage(width, height): nothing without an originalImage; else the scaled
\* copy becomes originalImage, the state is saved with the rotation as it is, the
\* image is stored and rendered
resizeImage(width, height, ts) ==
  /\ originalImage # NoImage
  /\ \E image \in Resized(originalImage, width, height) :
     LET m == storeImage(image, ts, Emit(M, "history:updated", -1))
     IN
     /\ originalImage' = image
     /\ historyManager' = saveToHistory(historyManager, currentAdjustments, currentFilter,
                                        currentRotation)
     /\ pageTable' = m.pageTable
     /\ stats' = m.stats
     /\ renderImage(m, image, currentAdjustments, currentFilter, currentRotation, NoHandler)
     /\ epoch' = epoch + 1
     /\ clock' = ts[Len(ts)]
     /\ UNCHANGED <<memoryLimit, pageSize, currentImage, currentAdjustments, currentFilter,
                    currentRotation, timers, lastRun>>
     /\ UNCHANGED <<returned, toolsUI, eventBus>>

----------------------------------------------------------------------------
(* Specifications *)

Budgets == 1..MaxBudget

\* memory limits in bytes for a page size: whole pages, and whole pages with a byte to spare
MemoryLimits(size) == { size * b + spare : b \in Budgets, spare \in {0, 1} }

\* the images of the calls made at any time: two pixels, and three pixels, whose
\* last page is shorter when a page holds two pixels
CallImages == { ImageOf(1, 2, "ramp"), ImageOf(3, 1, "ramp") }

\* their transform requests: the identity, and a request that uses every stage of
\* the transform
CallRequests ==
  { Request(0, 0, "none", 0), Request(20, 50, "sepia", 270) }

Init ==
  /\ pageSize \in PageSizes
  /\ memoryLimit \in MemoryLimits(pageSize)
  /\ pageTable = <<>>
  /\ stats = ZeroStats
  /\ epoch = 0
  /\ clock = 0
  /\ originalImage = NoImage
  /\ currentImage = NoImage
  /\ currentAdjustments = NoAdjustments
  /\ currentFilter = "none"
  /\ currentRotation = 0
  /\ runs = [r \in RunIds |-> NoRun]
  /\ timers = <<>>
  /\ cpu = 0
  /\ emitted = <<>>
  /\ lastRun = NoRun
  /\ nreq = 0
  /\ UIStart

\* one of the calls of a client that makes MaxCalls calls
Call(call) == nreq < MaxCalls /\ call

\* The memory manager under the calls of its API: storeImage, processImageChunks and
\* clearAllPages are accepted whenever the thread is free, also while runs wait for
\* the load of a page.
Next ==
  \/ \E image \in CallImages : \E ts \in Readings(TotalPages(image), clock) :
       Call(StoreImageCall(image, ts))
  \/ \E request \in CallRequests : Call(ProcessImageChunksCall(request))
  \/ Call(ClearAllPagesCall)
  \/ \E r \in RunIds : AcquireStep(r)
  \/ \E r \in RunIds : LoadDone(r)
  \/ \E r \in RunIds : FinishRun(r)

Spec == Init /\ [][Next]_vars

\* one of the calls of a client that makes MaxRequests calls
Asked(call) == nreq < MaxRequests /\ call

\* a call made by a client that awaits each of its calls before it makes the next
Awaited(call) == Quiescent /\ Asked(call)

\* The memory manager under such a client: storeImage calls and runs executed one at
\* a time.
NextSerial ==
  \/ \E image \in Images : \E ts \in Readings(TotalPages(image), clock) :
       Awaited(StoreImageCall(image, ts))
  \/ \E request \in TransformRequests : Awaited(ProcessImageChunksCall(request))
  \/ Awaited(ClearAllPagesCall)
  \/ \E r \in RunIds : AcquireStep(r)
  \/ \E r \in RunIds : LoadDone(r)
  \/ \E r \in RunIds : FinishRun(r)

SpecSerial == Init /\ [][NextSerial]_vars

\* the page accesses the runs in flight have yet to make
RECURSIVE Remaining(_)
Remaining(r) ==
  IF r = 0 THEN 0
  ELSE Remaining(r - 1)
       + (IF runs[r].pc = "idle" THEN 0 ELSE runs[r].pageCount - runs[r].idx)

\* The calls with the event loop's guarantees: a continuation that can run does
\* run, and a timer that is due does fire.  A call is made only while the clock of
\* the model, at time now after the call, leaves a tick for each page access that
\* can follow: those of the runs in flight and the given number of new ones.
InHorizon(now, accesses) ==
  now + (Remaining(MaxInFlight) + accesses) * (LoadDelay + MaxLate) <= MaxClock

\* an image of three pixels and one of four; the identity and a request that uses
\* every stage of the transform
FairImages == { ImageOf(3, 1, "ramp"), ImageOf(2, 2, "gray") }
FairRequests == { Request(0, 0, "none", 0), Request(20, 50, "grayscale", 270) }

NextFair ==
  \/ \E image \in FairImages : \E ts \in Readings(TotalPages(image), clock) :
       InHorizon(ts[Len(ts)], 0) /\ Asked(StoreImageCall(image, ts))
  \/ \E request \in FairRequests :
       InHorizon(clock, Len(pageTable)) /\ Asked(ProcessImageChunksCall(request))
  \/ \E r \in RunIds : AcquireStep(r)
  \/ \E r \in RunIds : LoadDone(r)
  \/ \E r \in RunIds : FinishRun(r)

Fairness ==
  \A r \in RunIds : /\ WF_vars(AcquireStep(r))
                     /\ WF_vars(LoadDone(r))
                     /\ WF_vars(FinishRun(r))

SpecFair == Init /\ [][NextFair]_vars /\ Fairness

\* the requests made of the editor: an image of two pixels and one of three, one
\* slider move, one filter button, both rotate buttons
EditorImages == { ImageOf(1, 2, "ramp"), ImageOf(3, 1, "ramp") }
AdjustmentInputs == { [brightness |-> b] : b \in Brightnesses \ {0} }
FilterInputs == { "invert" }

\* The editor under requests that arrive whenever the thread is free: its handlers
\* start a render at once, whatever is in flight.
NextOverlap ==
  \/ \E image \in EditorImages : \E ts \in Readings(TotalPages(image), clock) :
       LoadImage(image, ts)
  \/ \E a \in AdjustmentInputs : UpdateAdjustments(a)
  \/ \E f \in FilterInputs : ApplyFilter(f)
  \/ \E d \in {"left", "right"} : RotateImage(d)
  \/ \E r \in RunIds : AcquireStep(r)
  \/ \E r \in RunIds : LoadDone(r)
  \/ \E r \in RunIds : FinishRun(r)
  \/ \E r \in RunIds : RenderDone(r)

\* the editor starts on a memory manager whose limit is a whole number of pages
InitOverlap == Init /\ memoryLimit % pageSize = 0

SpecOverlap == InitOverlap /\ [][NextOverlap]_vars

\* The same editor on a page whose canvas, or whose listeners of the render
\* signals, can throw
NextRender ==
  \/ \E image \in EditorImages : \E ts \in Readings(TotalPages(image), clock) :
       LoadImage(image, ts)
  \/ \E a \in AdjustmentInputs : UpdateAdjustments(a)
  \/ \E f \in FilterInputs : ApplyFilter(f)
  \/ \E d \in {"left", "right"} : RotateImage(d)
  \/ \E r \in RunIds : AcquireStep(r)
  \/ \E r \in RunIds : LoadDone(r)
  \/ \E r \in RunIds : FinishRun(r)
  \/ \E r \in RunIds : RenderDone(r)
  \/ \E r \in RunIds : RenderThrows(r)

SpecRender == InitOverlap /\ [][NextRender]_vars

----------------------------------------------------------------------------
(* An editing session: an image is loaded, adjusted, filtered, rotated,        *)
(* cropped and resized, its states are saved, undone and redone                *)

MaxEdits == 4

\* the user makes a request when the render of the request before is over, and the
\* session is not over
CanEdit ==
  /\ cpu = 0
  /\ Quiescent
  /\ nreq < MaxEdits
  /\ \E r \in RunIds : runs[r].pc = "idle"

\* one request of the session
Edit(handler) ==
  /\ CanEdit
  /\ handler
  /\ nreq' = nreq + 1

\* an image of two pixels, one per page
SessionImages == { ImageOf(1, 2, "solid") }

\* the crop rectangles: the first pixel, the second pixel
CropBoxes == { <<0, 0, 1, 1>>, <<0, 1, 1, 1>> }

\* the adjustment asked of updateAdjustments
SessionAdjustments == { [brightness |-> 20] }

\* the sizes asked of resizeImage: one pixel, and two pixels side by side
Sizes == { <<1, 1>>, <<2, 1>> }

InitEdit ==
  /\ Init
  /\ pageSize = BytesPerPixel
  /\ memoryLimit \in {pageSize, 2 * pageSize}

NextEdit ==
  \/ \E image \in SessionImages : \E ts \in Readings(TotalPages(image), clock) :
       Edit(loadImage(image, ts))
  \/ \E d \in {"left", "right"} : Edit(rotateImage(d, NoHandler) /\ UNCHANGED uiVars)
  \/ \E d \in {"left", "right"} : Edit(clickRotate(d))
  \/ \E f \in FilterInputs : Edit(clickFilter(f))
  \/ \E a \in SessionAdjustments : Edit(updateAdjustments(a) /\ UNCHANGED uiVars)
  \/ Edit(saveState)
  \/ Edit(editorUndo /\ canUndo(historyManager))
  \/ Edit(editorRedo /\ canRedo(historyManager))
  \/ \E box \in CropBoxes : \E ts \in Readings(1, clock) :
       Edit(cropImage(box[1], box[2], box[3], box[4], ts))
  \/ \E size \in Sizes :
       \E ts \in Readings(TotalPages([width |-> size[1], height |-> size[2]]), clock) :
         Edit(resizeImage(size[1], size[2], ts))
  \/ \E r \in RunIds : AcquireStep(r)
  \/ \E r \in RunIds : LoadDone(r)
  \/ \E r \in RunIds : FinishRun(r)
  \/ \E r \in RunIds : RestOfTask(r)
  \/ \E r \in RunIds : RenderDone(r)

SpecEdit == InitEdit /\ [][NextEdit]_vars

----------------------------------------------------------------------------
(* A HistoryManager on its own: addState, undo, redo and clear in any order *)

MaxStates == 3

\* the states given to addState
HistoryStates ==
  { EditState(NoAdjustments, "none", 0),
    EditState(NoAdjustments, "grayscale", 90),
    EditState([brightness |-> 20, contrast |-> 0], "none", 270) }

InitHistory ==
  /\ pageSize = BytesPerPixel
  /\ memoryLimit = pageSize
  /\ pageTable = <<>>
  /\ stats = ZeroStats
  /\ epoch = 0
  /\ clock = 0
  /\ originalImage = NoImage
  /\ currentImage = NoImage
  /\ currentAdjustments = NoAdjustments
  /\ currentFilter = "none"
  /\ currentRotation = 0
  /\ runs = [r \in RunIds |-> NoRun]
  /\ timers = <<>>
  /\ cpu = 0
  /\ emitted = <<>>
  /\ lastRun = NoRun
  /\ nreq = 0
  /\ \E n \in 1..MaxStates : historyManager = HistoryManager(n)
  /\ returned = NoState
  /\ toolsUI = ToolsUIStart
  /\ eventBus = EventBusStart

AddState(state) ==
  /\ historyManager' = addState(historyManager, state)
  /\ UNCHANGED <<returned, toolsUI, eventBus>>
  /\ UNCHANGED coreVars

Undo ==
  /\ historyManager' = undo(historyManager).h
  /\ returned' = undo(historyManager).returned
  /\ UNCHANGED <<toolsUI, eventBus>>
  /\ UNCHANGED coreVars

Redo ==
  /\ historyManager' = redo(historyManager).h
  /\ returned' = redo(historyManager).returned
  /\ UNCHANGED <<toolsUI, eventBus>>
  /\ UNCHANGED coreVars

Clear ==
  /\ historyManager' = clear(historyManager)
  /\ UNCHANGED <<returned, toolsUI, eventBus>>
  /\ UNCHANGED coreVars

NextHistory ==
  \/ \E state \in HistoryStates : AddState(state)
  \/ Undo
  \/ Redo
  \/ Clear

SpecHistory == InitHistory /\ [][NextHistory]_vars

----------------------------------------------------------------------------
(* An EventBus on its own: callbacks subscribed with on and once, emits, and *)
(* callbacks unsubscribed with off and clear                                *)

MaxListeners == 3
MaxEmits == 2

InitBus ==
  /\ Init
  /\ pageSize = BytesPerPixel
  /\ memoryLimit = pageSize

\* on(event, callback) called by a client of the bus
BusOn(reemits) ==
  /\ Len(eventBus.listeners) < MaxListeners
  /\ eventBus' = on(eventBus, Listener(Len(eventBus.listeners) + 1, "on", reemits))
  /\ UNCHANGED <<historyManager, returned, toolsUI>>
  /\ UNCHANGED coreVars

\* once(event, callback) called by a client of the bus
BusOnce(reemits) ==
  /\ Len(eventBus.listeners) < MaxListeners
  /\ eventBus' = once(eventBus, Listener(Len(eventBus.listeners) + 1, "once", reemits))
  /\ UNCHANGED <<historyManager, returned, toolsUI>>
  /\ UNCHANGED coreVars

\* emit(event, data) called by a client of the bus, until it returns
BusEmit ==
  /\ nreq < MaxEmits
  /\ eventBus' = emit(eventBus)
  /\ nreq' = nreq + 1
  /\ UNCHANGED <<historyManager, returned, toolsUI>>
  /\ UNCHANGED <<memoryLimit, pageSize, pageTable, stats, epoch, clock, originalImage,
                 currentImage, currentAdjustments, currentFilter, currentRotation,
                 runs, timers, cpu, emitted, lastRun>>

\* off(event, callback) called by a client of the bus with a callback it has
\* subscribed: one given to on is removed; for one given to once the array holds
\* onceCallback, which the client has no hold of, and nothing is removed
BusOff(i) ==
  /\ eventBus.listeners[i].kind = "on"
  /\ eventBus' = off(eventBus, eventBus.listeners[i])
  /\ UNCHANGED <<historyManager, returned, toolsUI>>
  /\ UNCHANGED coreVars

\* clear() called by a client of the bus: every callback is unsubscribed
BusClear ==
  /\ eventBus' = [eventBus EXCEPT !.events = <<>>]
  /\ UNCHANGED <<historyManager, returned, toolsUI>>
  /\ UNCHANGED coreVars

NextBus ==
  \/ \E reemits \in BOOLEAN : BusOn(reemits)
  \/ \E reemits \in BOOLEAN : BusOnce(reemits)
  \/ BusEmit
  \/ \E i \in 1..Len(eventBus.listeners) : BusOff(i)
  \/ BusClear

SpecBus == InitBus /\ [][NextBus]_vars

----------------------------------------------------------------------------
(* The sliders of the tools UI: input events debounced by one shared timer, change *)
(* events that save the state                                                       *)

Sliders == {"brightness", "contrast"}

\* the values the sliders are moved to
InputValues == {20, 50}

\* the input event of a slider: the pending timer is cleared and a new one is set for
\* the value of the slider
SliderInput(slider, value) ==
  /\ cpu = 0
  /\ nreq < MaxEdits
  /\ toolsUI' = [toolsUI EXCEPT ![slider] = value,
                                !.moved = @ \cup {slider},
                                !.sliderTimer = [kind |-> slider, value |-> value]]
  /\ nreq' = nreq + 1
  /\ emitted' = <<>>
  /\ UNCHANGED <<memoryLimit, pageSize, pageTable, stats, epoch, clock, originalImage,
                 currentImage, currentAdjustments, currentFilter, currentRotation,
                 runs, timers, cpu, lastRun>>
  /\ UNCHANGED <<historyManager, returned, eventBus>>

\* the debounce timer fires: image:modify of type adjustments with the value of the
\* input event that set the timer, handled by updateAdjustments
SliderTimerFires ==
  /\ cpu = 0
  /\ \E r \in RunIds : runs[r].pc = "idle"
  /\ toolsUI.sliderTimer # NoTimer
  /\ updateAdjustments(IF toolsUI.sliderTimer.kind = "brightness"
                       THEN [brightness |-> toolsUI.sliderTimer.value]
                       ELSE [contrast |-> toolsUI.sliderTimer.value])
  /\ toolsUI' = [toolsUI EXCEPT !.sliderTimer = NoTimer]
  /\ UNCHANGED <<historyManager, returned, eventBus, nreq>>

\* the change event of a slider that was moved: image:modify of type saveState
SliderChange(slider) ==
  /\ cpu = 0
  /\ nreq < MaxEdits
  /\ slider \in toolsUI.moved
  /\ historyManager' = saveToHistory(historyManager, currentAdjustments, currentFilter,
                                     currentRotation)
  /\ emitted' = << Signal("history:updated", -1) >>
  /\ toolsUI' = [toolsUI EXCEPT !.moved = @ \ {slider}]
  /\ nreq' = nreq + 1
  /\ UNCHANGED <<memoryLimit, pageSize, pageTable, stats, epoch, clock, originalImage,
                 currentImage, currentAdjustments, currentFilter, currentRotation,
                 runs, timers, cpu, lastRun>>
  /\ UNCHANGED <<returned, eventBus>>

\* toolsUI.resetTools(): the two range inputs are set to 0 by the script, which
\* fires no input or change event and leaves a pending debounce timer as it is
resetTools ==
  /\ cpu = 0
  /\ nreq < MaxEdits
  /\ toolsUI' = [toolsUI EXCEPT !.brightness = 0, !.contrast = 0]
  /\ nreq' = nreq + 1
  /\ emitted' = <<>>
  /\ UNCHANGED <<memoryLimit, pageSize, pageTable, stats, epoch, clock, originalImage,
                 currentImage, currentAdjustments, currentFilter, currentRotation,
                 runs, timers, cpu, lastRun>>
  /\ UNCHANGED <<historyManager, returned, eventBus>>

NextSlider ==
  \/ \E image \in SessionImages : \E ts \in Readings(TotalPages(image), clock) :
       Edit(loadImage(image, ts))
  \/ \E slider \in Sliders, value \in InputValues : SliderInput(slider, value)
  \/ SliderTimerFires
  \/ \E slider \in Sliders : SliderChange(slider)
  \/ resetTools
  \/ \E r \in RunIds : AcquireStep(r)
  \/ \E r \in RunIds : LoadDone(r)
  \/ \E r \in RunIds : FinishRun(r)
  \/ \E r \in RunIds : RenderDone(r)

InitSlider ==
  /\ Init
  /\ pageSize = BytesPerPixel
  /\ memoryLimit = pageSize

SpecSlider == InitSlider /\ [][NextSlider]_vars

---------------------------------------------------------------------------------------------------------------------------------------------------
(* Quarter turns: an image is loaded into a memory manager that holds all its  *)
(* pages, and rotateImage('right') is called again and again, each call after  *)
(* the render of the previous one                                              *)

MaxSide == 3
MaxTurns == 4

\* images of every width and height up to MaxSide, each pixel of its own colour
TurnImages == { ImageOf(w, h, "solid") : w \in 1..MaxSide, h \in 1..MaxSide }

\* pages of four pixels, and a limit that holds every page of the largest image
InitRotate ==
  /\ pageSize = 4 * BytesPerPixel
  /\ memoryLimit = MaxSide * MaxSide * BytesPerPixel + pageSize
  /\ pageTable = <<>>
  /\ stats = ZeroStats
  /\ epoch = 0
  /\ clock = 0
  /\ originalImage = NoImage
  /\ currentImage = NoImage
  /\ currentAdjustments = NoAdjustments
  /\ currentFilter = "none"
  /\ currentRotation = 0
  /\ runs = [r \in RunIds |-> NoRun]
  /\ timers = <<>>
  /\ cpu = 0
  /\ emitted = <<>>
  /\ lastRun = NoRun
  /\ nreq = 0
  /\ UIStart

\* the file input: loadImage of the first image of the session
TurnLoad(image, ts) ==
  /\ cpu = 0
  /\ originalImage = NoImage
  /\ loadImage(image, ts)
  /\ UNCHANGED nreq

\* the image:modify handler for type rotation, direction right
QuarterTurn ==
  /\ cpu = 0
  /\ nreq < MaxTurns
  /\ originalImage # NoImage
  /\ rotateImage("right", NoHandler)
  /\ nreq' = nreq + 1
  /\ UNCHANGED uiVars

NextRotate ==
  \/ \E image \in TurnImages : \E ts \in Readings(TotalPages(image), clock) :
       TurnLoad(image, ts)
  \/ QuarterTurn
  \/ \E r \in RunIds : AcquireStep(r)
  \/ \E r \in RunIds : FinishRun(r)
  \/ \E r \in RunIds : RenderDone(r)

SpecRotate == InitRotate /\ [][NextRotate]_vars

----------------------------------------------------------------------------
(* storeImage handed any { width, height, data }, also one whose data has not *)
(* width * height * 4 bytes                                                   *)

\* buffers of the wrong length: too short, too long, empty
BadBuffers ==
  { [width |-> 1, height |-> 2, data |-> Slice(ImageOf(1, 2, "ramp").data, 0, 4)],
    [width |-> 1, height |-> 1, data |-> ImageOf(1, 2, "ramp").data],
    [width |-> 2, height |-> 2, data |-> Slice(ImageOf(2, 2, "ramp").data, 0, 6)] }

Buffers == Images \cup BadBuffers

NextStore ==
  \E image \in Buffers : \E ts \in Readings(TotalPages(image), clock) :
    Asked(StoreImageCall(image, ts))

SpecStore == Init /\ [][NextStore]_vars

----------------------------------------------------------------------------
(* processImageChunks called with contrast adjustments, the one that makes   *)
(* the denominator of applyContrast zero among them                          *)

\* the contrast for which 255 * (259 - contrast) = 0
DegenerateContrast == 259

ContrastRequests ==
  { Request(0, c, "none", 0) : c \in (Contrasts \ {0}) \cup {DegenerateContrast} }

NextContrast ==
  \/ \E image \in Images : \E ts \in Readings(TotalPages(image), clock) :
       Asked(StoreImageCall(image, ts))
  \/ \E request \in ContrastRequests : Asked(ProcessImageChunksCall(request))
  \/ \E r \in RunIds : AcquireStep(r)
  \/ \E r \in RunIds : LoadDone(r)
  \/ \E r \in RunIds : FinishRun(r)

SpecContrast == Init /\ [][NextContrast]_vars

----------------------------------------------------------------------------
(* The memory manager set up with a limit below one page: storeImage evicts  *)
(* every page it admits, and the first fault of a run finds no active page   *)

InitTight ==
  /\ pageSize \in PageSizes
  /\ memoryLimit \in {0, pageSize - 1}
  /\ pageTable = <<>>
  /\ stats = ZeroStats
  /\ epoch = 0
  /\ clock = 0
  /\ originalImage = NoImage
  /\ currentImage = NoImage
  /\ currentAdjustments = NoAdjustments
  /\ currentFilter = "none"
  /\ currentRotation = 0
  /\ runs = [r \in RunIds |-> NoRun]
  /\ timers = <<>>
  /\ cpu = 0
  /\ emitted = <<>>
  /\ lastRun = NoRun
  /\ nreq = 0
  /\ UIStart

SpecTight == InitTight /\ [][Next]_vars

----------------------------------------------------------------------------
(* processChunk applied to a chunk of pixels, for every setting of the two    *)
(* sliders and of the filter                                                  *)

MaxChunkPixels == 2

\* pixels with every kind of alpha: transparent, partly transparent, opaque
ChunkPalette == { <<0, 0, 0, 0>>, <<10, 50, 90, 255>>, <<255, 128, 3, 77>>,
                  <<200, 200, 200, 128>> }

\* the interleaved bytes of a sequence of pixels
Interleaved(pixels) ==
  [j \in 1..(Len(pixels) * BytesPerPixel) |->
     pixels[((j - 1) \div BytesPerPixel) + 1][((j - 1) % BytesPerPixel) + 1]]

Chunks == UNION { { Interleaved(pixels) : pixels \in [1..k -> ChunkPalette] } :
                  k \in 1..MaxChunkPixels }

\* positions of a slider of the page: its ends, its middle, and two between
SliderValues == { -100, 0, 20, 50, 100 }

InitChunk ==
  /\ pageSize \in PageSizes
  /\ memoryLimit = pageSize * MaxBudget
  /\ pageTable = <<>>
  /\ stats = ZeroStats
  /\ epoch = 0
  /\ clock = 0
  /\ \E chunk \in Chunks :
       originalImage = [width |-> Len(chunk) \div BytesPerPixel, height |-> 1, data |-> chunk]
  /\ currentImage = originalImage
  /\ \E b \in SliderValues, c \in SliderValues :
       currentAdjustments = [brightness |-> b, contrast |-> c]
  /\ currentFilter \in Filters
  /\ currentRotation = 0
  /\ runs = [r \in RunIds |-> NoRun]
  /\ timers = <<>>
  /\ cpu = 0
  /\ emitted = <<>>
  /\ lastRun = NoRun
  /\ nreq = 0
  /\ UIStart

\* processChunk(chunkData, adjustments, filter): the chunk it returns is kept as the
\* data of currentImage
ProcessChunkCall ==
  /\ nreq = 0
  /\ currentImage' = [originalImage EXCEPT
                        !.data = processChunk(originalImage.data, currentAdjustments,
                                              currentFilter)]
  /\ nreq' = 1
  /\ UNCHANGED <<memoryLimit, pageSize, pageTable, stats, epoch, clock, originalImage,
                 currentAdjustments, currentFilter, currentRotation, runs, timers, cpu,
                 emitted, lastRun>>
  /\ UNCHANGED uiVars

NextChunk == ProcessChunkCall

SpecChunk == InitChunk /\ [][NextChunk]_vars

----------------------------------------------------------------------------
(* One image of four pages stored under a budget of two pages, and runs over  *)
(* it that are started whenever the thread is free: the page loops of two     *)
(* runs interleave at the waits of their page loads                           *)

\* images of four pixels, stored as four pages of one pixel
AcquireImages == { ImageOf(2, 2, "ramp"), ImageOf(2, 2, "gray") }

\* a page of one pixel, a limit of two pages, with and without a byte to spare
InitAcquire ==
  /\ Init
  /\ pageSize = BytesPerPixel
  /\ memoryLimit \div pageSize = 2

NextAcquire ==
  \/ \E image \in AcquireImages : \E ts \in Readings(TotalPages(image), clock) :
       pageTable = <<>> /\ Call(StoreImageCall(image, ts))
  \/ pageTable # <<>> /\ Call(ProcessImageChunksCall(Request(0, 0, "none", 0)))
  \/ \E r \in RunIds : AcquireStep(r)
  \/ \E r \in RunIds : LoadDone(r)
  \/ \E r \in RunIds : FinishRun(r)

SpecAcquire == InitAcquire /\ [][NextAcquire]_vars

----------------------------------------------------------------------------
(* Claims *)

ActivePages == { i \in 1..Len(pageTable) : pageTable[i].status = "active" }
InactivePages == { i \in 1..Len(pageTable) : pageTable[i].status = "inactive" }

\* the signals of the last step that report an eviction
SwappedOut == { k \in 1..Len(emitted) : emitted[k].type = "memory:page:swapped-out" }

\* the last step was a storeImage: the only step that emits the statistics both
\* first (clearAllPages) and last
JustStored ==
  /\ Len(emitted) >= 2
  /\ emitted[1].type = "memory:stats:updated"
  /\ emitted[Len(emitted)].type = "memory:stats:updated"

\* the page indexes of the evictions of the last step, in the order they were made
RECURSIVE VictimsFrom(_)
VictimsFrom(k) ==
  IF k > Len(emitted) THEN <<>>
  ELSE (IF emitted[k].type = "memory:page:swapped-out" THEN <<emitted[k].pageId>> ELSE <<>>)
       \o VictimsFrom(k + 1)

Victims == VictimsFrom(1)

\* C1: with calls made one at a time, the active pages times the page size, and the
\* memoryUsage gauge, never exceed memoryLimit: after storeImage and after every
\* page a run acquires, by a hit or by a fault.
C1_WorkingSetBudget ==
  /\ Cardinality(ActivePages) * pageSize <= memoryLimit
  /\ stats.memoryUsage <= memoryLimit

\* a fault has admitted a page into a full working set while other pages stay evicted
C1_Witness ==
  /\ stats.pageFaults > 0
  /\ (Cardinality(ActivePages) + 1) * pageSize > memoryLimit
  /\ InactivePages # {}
  /\ emitted # <<>> /\ emitted[Len(emitted)].type = "memory:page:swapped-in"

\* C2: every page swapOutLRUPage evicts was active when selected, its lastAccessed
\* was the least of the active pages, and of the pages tied on it it had the
\* smallest index.
C2_LruVictim ==
  \A k \in SwappedOut :
    LET resident == emitted[k].resident
        victim == emitted[k].pageId
    IN \E j \in 1..Len(resident) :
         /\ resident[j][1] = victim
         /\ \A i \in 1..Len(resident) :
              \/ resident[i][2] > resident[j][2]
              \/ resident[i][2] = resident[j][2] /\ resident[i][1] >= victim

\* an eviction chose among pages tied on the oldest time while an evicted page
\* was in the table
C2_Witness ==
  \E k \in SwappedOut :
    LET resident == emitted[k].resident
    IN /\ Len(resident) < Len(pageTable)
       /\ \E i, j \in 1..Len(resident) :
            /\ i # j
            /\ resident[i][2] = resident[j][2]
            /\ \A l \in 1..Len(resident) : resident[l][2] >= resident[i][2]

\* C3: the pages of a stored image, in index order, have half-open pixel ranges
\* that start at 0, follow one another without gap or overlap, are never empty,
\* are one page unit long except possibly the last, and end at width * height:
\* when storeImage returns, and for as long as the table holds pages.
C3_PagePartition ==
  (JustStored \/ pageTable # <<>>) =>
    LET n == Len(pageTable) IN
    /\ n >= 1
    /\ pageTable[1].startPixel = 0
    /\ pageTable[n].endPixel = originalImage.width * originalImage.height
    /\ \A i \in 1..n :
         /\ pageTable[i].startPixel < pageTable[i].endPixel
         /\ pageTable[i].endPixel - pageTable[i].startPixel <= pixelsPerPage
         /\ i < n => /\ pageTable[i].endPixel - pageTable[i].startPixel = pixelsPerPage
                     /\ pageTable[i + 1].startPixel = pageTable[i].endPixel

\* an image stored in several pages, the last one shorter than the unit
C3_Witness ==
  /\ Len(pageTable) >= 2
  /\ pageTable[Len(pageTable)].endPixel - pageTable[Len(pageTable)].startPixel < pixelsPerPage

\* the page at index idx is in the table and active
IsResident(idx) == idx < Len(pageTable) /\ pageTable[idx + 1].status = "active"

\* C4: in the page loop of a run, the access of a page that is active adds one to
\* pageHits and leaves pageFaults; the access of a page that is inactive adds one
\* to pageFaults, once its load is over, and leaves pageHits.
C4_HitFaultAccounting ==
  [][\A r \in RunIds :
       /\ (cpu = r /\ runs[r].pc = "acquire" /\ runs[r].idx < runs[r].pageCount) =>
            IF IsResident(runs[r].idx)
            THEN /\ stats'.pageHits = stats.pageHits + 1
                 /\ stats'.pageFaults = stats.pageFaults
            ELSE /\ stats'.pageHits = stats.pageHits
                 /\ \/ stats'.pageFaults = stats.pageFaults + 1
                    \/ runs'[r].pc = "loading" /\ stats'.pageFaults = stats.pageFaults
       /\ (runs[r].pc = "loading" /\ runs'[r].pc # "loading") =>
            /\ stats'.pageFaults = stats.pageFaults + 1
            /\ stats'.pageHits = stats.pageHits]_vars

\* a run has taken two faults and waits for the load of a third page
C4_Witness ==
  /\ stats.pageFaults >= 2
  /\ \E r \in RunIds : runs[r].pc = "loading"

\* C5: every active page holds the bytes of the original buffer over its range,
\* also after it was evicted and reloaded by a fault.
C5_ReloadPreservesData ==
  \A i \in ActivePages :
    pageTable[i].data = Slice(originalImage.data, pageTable[i].startIndex, pageTable[i].endIndex)

\* the identity transform request
IsIdentity(run) ==
  /\ run.adjustments = NoAdjustments
  /\ run.filter = "none"
  /\ run.rotation = 0

\* C6: a run with brightness 0, contrast 0, filter none and rotation 0 returns a
\* buffer equal byte for byte to the stored source buffer, whatever the budget.
C6_IdentityTransform ==
  (lastRun.pc = "done" /\ IsIdentity(lastRun)) => lastRun.outputData = lastRun.image.data

\* currentRotation after four rotateImage('right') calls
FourRights(rotation) ==
  Rotated(Rotated(Rotated(Rotated(rotation, "right"), "right"), "right"), "right")

\* the image the rotation-90 branch of applyChunkToOutput makes of an image, page by
\* page as storeImage lays the pages out, from page i on
RECURSIVE TurnPages(_, _, _)
TurnPages(image, i, out) ==
  IF i >= TotalPages(image) THEN out
  ELSE LET page == NewPage(image, i, 0)
       IN TurnPages(image, i + 1,
                    applyChunkToOutput(page.data, out, page, image.width, image.height, 90))

\* one quarter turn: the remap, then width and height swapped
Turned(image) ==
  [width |-> image.height, height |-> image.width,
   data |-> TurnPages(image, 0, [outputData |-> Zeros(Len(image.data)),
                                 writes |-> <<>>]).outputData]

\* n quarter turns, each applied to the output of the one before
RECURSIVE TurnedTimes(_, _)
TurnedTimes(image, n) == IF n = 0 THEN image ELSE Turned(TurnedTimes(image, n - 1))

\* C7: four quarter turns of applyChunkToOutput, width and height swapped after
\* each, give back the image, every pixel at its coordinate with its channel
\* values, from the image loaded and from every image the editor has rendered of
\* it; the render after n calls of rotateImage('right') is the image turned n
\* times, and four calls give back currentRotation and the image.
C7_RotationRoundTrip ==
  (originalImage # NoImage /\ InFlight = {}) =>
    /\ currentImage = TurnedTimes(originalImage, nreq)
    /\ TurnedTimes(currentImage, 4) = currentImage
    /\ FourRights(currentRotation) = currentRotation
    /\ nreq = 4 => currentRotation = 0 /\ currentImage = originalImage

\* four turns of an image that is not square and has several rows were rendered,
\* every page read without a fault
C7_Witness ==
  /\ nreq = 4
  /\ InFlight = {}
  /\ originalImage.width > originalImage.height
  /\ originalImage.height > 1
  /\ Len(pageTable) > 1
  /\ stats.pageFaults = 0
  /\ stats.pageHits = 5 * Len(pageTable)
  /\ currentImage = originalImage

\* the output pixel the claim gives for source pixel (x, y), as an index
ExpectedPixel(pixel, width, height, rotation) ==
  LET x == pixel % width
      y == pixel \div width
  IN IF rotation = 0 THEN y * width + x
     ELSE IF rotation = 90 THEN x * height + (height - 1 - y)
     ELSE IF rotation = 180 THEN (height - 1 - y) * width + (width - 1 - x)
     ELSE (width - 1 - x) * height + y

\* C8: for every rotation, image and page unit, a run over the pages of its image
\* writes each byte of source pixel (x, y) to the same channel of the output pixel
\* the remap gives, every target lies inside the output buffer, and every output
\* byte is written once.
C8_RotationRemap ==
  (lastRun.pc = "done" /\ lastRun.pageCount = TotalPages(lastRun.image)) =>
    LET w == lastRun.image.width
        h == lastRun.image.height
        writes == lastRun.writes
    IN /\ Len(writes) = w * h * BytesPerPixel
       /\ \A k \in 1..Len(writes) :
            /\ writes[k].dst =
                 ExpectedPixel(writes[k].src \div BytesPerPixel, w, h, lastRun.rotation)
                   * BytesPerPixel + (writes[k].src % BytesPerPixel)
            /\ writes[k].dst >= 0
            /\ writes[k].dst < Len(lastRun.outputData)
       /\ \A k1, k2 \in 1..Len(writes) : writes[k1].dst = writes[k2].dst => k1 = k2
       /\ { writes[k].src : k \in 1..Len(writes) } = 0..(w * h * BytesPerPixel - 1)

\* a run turned by 90 degrees an image that is not square and lies in several pages
C8_Witness ==
  /\ lastRun.pc = "done"
  /\ lastRun.rotation = 90
  /\ lastRun.image.width # lastRun.image.height
  /\ lastRun.pageCount >= 2

\* C9: at most one run of processImageChunks is in progress at any time: a render
\* request that arrives while a run waits in a swap-in is queued or rejected.
C9_SingleRunInFlight == Cardinality(InFlight) <= 1

\* C10 as stated: the evictions of storeImage take the highest-numbered pages
\* first, and leave the lower-numbered pages active.
C10_HighestEvictedFirst ==
  JustStored =>
    /\ \A k \in 1..Len(Victims) : Victims[k] = Len(pageTable) - k
    /\ \A i \in ActivePages : \A j \in InactivePages : i < j

\* C10 amended: the evictions of storeImage take the lowest-numbered pages first,
\* page 0, then page 1, and so on, and leave the highest-numbered pages active.
C10_LowestEvictedFirst ==
  JustStored =>
    /\ \A k \in 1..Len(Victims) : Victims[k] = k - 1
    /\ \A i \in ActivePages : \A j \in InactivePages : j < i

\* a storeImage that evicted two pages
C10_Witness ==
  /\ JustStored
  /\ Len(Victims) >= 2

\* the pages the last step evicted are exactly the page victim
EvictedJust(victim) ==
  /\ SwappedOut # {}
  /\ \A k \in SwappedOut : emitted[k].pageId = victim

\* The page loop takes the pages of the table in insertion order in every run, so
\* the accesses 0, 1, 2, 0, 3 are begun in this order only by two runs that overlap:
\* the run in slot a has accessed pages 0, 1 and 2, the run in slot b has started
\* while a waited for page 2 and waits for page 0 itself, no other access was made,
\* and a goes on to page 3
ScenarioOrder(a, b) ==
  /\ a # b
  /\ memoryLimit \div pageSize = 2
  /\ Len(pageTable) = 4
  /\ cpu = a
  /\ runs[a].pc = "acquire" /\ runs[a].idx = 3
  /\ runs[b].pc = "loading" /\ runs[b].idx = 0
  /\ runs[a].pageEpoch = epoch /\ runs[b].pageEpoch = epoch
  /\ stats.pageHits + stats.pageFaults = 3
  /\ \A c \in RunIds \ {a, b} : runs[c].pc = "idle"

\* the step in which the run in slot a accesses page 3, the accesses before it
\* having been begun in the order 0, 1, 2, 0
Admits3(a, b) == ScenarioOrder(a, b) /\ runs'[a] # runs[a]

\* what the overlapping runs do at the admission of 3: page 1 is evicted, the
\* least recently used of the resident pages 1 and 2; page 0 is not resident, it
\* was evicted at the admission of 2 and the load of its second access, a fault,
\* is still awaited; no hit was counted
OverlapAdmits3 ==
  [][\A a, b \in RunIds :
       Admits3(a, b) =>
         /\ EvictedJust(1)'
         /\ pageTable[1].status = "inactive"
         /\ ActivePages = {2, 3}
         /\ pageTable[2].lastAccessed <= pageTable[3].lastAccessed
         /\ stats.pageHits = 0
    ]_vars

\* a run alone accesses each page of the table once, in the order of the table:
\* the page a run is at is the page of its position in the loop
TableOrder ==
  \A r \in RunIds :
    (runs[r].pc # "idle" /\ runs[r].idx < runs[r].pageCount) => PageId(runs[r]) = runs[r].idx

\* page 3 has just been admitted by the first run while the second waits for page 0
OverlapAdmitted3 ==
  /\ memoryLimit \div pageSize = 2
  /\ EvictedJust(1)
  /\ stats.pageHits + stats.pageFaults = 3
  /\ Len(timers) = 2
  /\ runs[timers[1].run].idx = 0
  /\ runs[timers[2].run].idx = 3
  /\ ActivePages = {3}

\* the last step was a loadImage: storeImage, whose first signal is the statistics
\* of clearAllPages, then the start of the first render
JustLoaded ==
  /\ Len(emitted) >= 3
  /\ emitted[1].type = "memory:stats:updated"
  /\ emitted[Len(emitted)].type = "image:rendering:start"

\* the gauges describe the pages of the table
GaugesMatchTable ==
  /\ stats.activePages = Cardinality(ActivePages)
  /\ stats.inactivePages = Cardinality(InactivePages)
  /\ stats.memoryUsage = Cardinality(ActivePages) * pageSize

\* C12: right after a storeImage, whatever came before it, pageHits and pageFaults
\* are 0, the table holds the pages of the new image only, and the gauges count
\* these pages.
C12_StatsResetOnRebuild ==
  JustLoaded =>
    /\ stats.pageHits = 0
    /\ stats.pageFaults = 0
    /\ Len(pageTable) = TotalPages(originalImage)
    /\ GaugesMatchTable

\* an image was stored after a render that took faults (its identity output has the
\* zero bytes of a reloaded page), and the new page set has evicted pages
C12_Witness ==
  /\ JustLoaded
  /\ lastRun.pc = "done"
  /\ \E j \in 1..Len(lastRun.outputData) : lastRun.outputData[j] = 0
  /\ InactivePages # {}

\* the buffer of the stored image has not width * height * 4 bytes
InvalidBuffer(image) == Len(image.data) # image.width * image.height * BytesPerPixel

\* C13: a storeImage whose buffer has not width * height * 4 bytes creates no
\* page and leaves the page table and the statistics as they were.
C13_InvalidBufferRejected ==
  [][(nreq' = nreq + 1 /\ InvalidBuffer(originalImage'))
       => (pageTable' = pageTable /\ stats' = stats)]_vars

\* the run in slot r is at a page of its list that the table does not hold
AtUnknownPage(r) ==
  /\ runs[r].idx < runs[r].pageCount
  /\ runs[r].idx >= Len(pageTable)
  /\ \/ cpu = r /\ runs[r].pc = "acquire"
     \/ runs[r].pc = "loading"

\* C14: a run that comes to a page id that is not in the page table ends there
\* without an output: it does not skip the page and go on, and nothing of it is
\* returned or stored as currentImage.
C14_UnknownPageAborts ==
  [][\A r \in RunIds :
       (AtUnknownPage(r) /\ runs'[r] # runs[r])
         => (runs'[r] = NoRun /\ lastRun' = lastRun /\ currentImage' = currentImage)]_vars

\* C15: a transform request with contrast 259 is rejected: no run is started for
\* it and no output is computed from it.
C15_DegenerateContrastRejected ==
  /\ \A r \in RunIds : runs[r].adjustments.contrast # DegenerateContrast
  /\ lastRun.adjustments.contrast # DegenerateContrast

\* the number of signals of a type in a sequence of signals
SignalCount(signals, type) ==
  Cardinality({ k \in 1..Len(signals) : signals[k].type = type })

\* a render of the editor is in slot r
IsRender(run) == run.pc # "idle" /\ run.caller = "editor"

\* C16: the step that starts a render emits the start signal once, before any page
\* of the render is acquired, and no other step emits it; the step that ends a
\* render emits exactly one of the complete and the error signal, never both and
\* never neither, and no other step emits either; a step that emits the error
\* signal leaves currentImage as it was.
C16_LifecycleSignals ==
  [][LET started == { r \in RunIds : ~IsRender(runs[r]) /\ IsRender(runs'[r]) }
         ended == { r \in RunIds : IsRender(runs[r]) /\ ~IsRender(runs'[r]) }
         ends == SignalCount(emitted', "image:rendering:complete")
                   + SignalCount(emitted', "image:rendering:error")
     IN /\ SignalCount(emitted', "image:rendering:start") = Cardinality(started)
        /\ Cardinality(started) <= 1
        /\ \A r \in started : /\ runs'[r].idx = 0
                               /\ emitted'[Len(emitted')].type = "image:rendering:start"
        /\ ends = Cardinality(ended)
        /\ Cardinality(ended) <= 1
        /\ SignalCount(emitted', "image:rendering:error") > 0 => currentImage' = currentImage
    ]_vars

\* the 2x2 image of four pixels (128, 128, 128, 255) was stored with a page of one
\* pixel and a budget of one page, and one run with brightness 0, contrast 0,
\* filter invert and rotation 90 has finished
EndToEndScenario ==
  /\ pageSize = BytesPerPixel
  /\ memoryLimit \div pageSize = 1
  /\ nreq = 2
  /\ lastRun.pc = "done"
  /\ lastRun.image = ImageOf(2, 2, "gray")
  /\ lastRun.adjustments = NoAdjustments
  /\ lastRun.filter = "invert"
  /\ lastRun.rotation = 90

\* C17: in this scenario the output is 2x2 and its four pixels are (127, 127, 127, 255).
C17_EndToEndPixels ==
  EndToEndScenario =>
    /\ NewWidth(lastRun) = 2 /\ NewHeight(lastRun) = 2
    /\ lastRun.outputData = [j \in 1..16 |-> IF IsAlpha(j) THEN 255 ELSE 127]

\* C18: in this scenario the run has taken at least 3 faults.
C18_EndToEndFaults == EndToEndScenario => stats.pageFaults >= 3

\* the scenario has run to its end and every page was loaded during the run
C18_Witness ==
  /\ EndToEndScenario
  /\ stats.pageHits + stats.pageFaults = 4
  /\ Len(lastRun.writes) = 16

\* C19: the ImageData a run returns has width * height * 4 bytes, and is
\* width x height for the rotations 0 and 180, height x width for 90 and 270.
C19_OutputDimensions ==
  lastRun.pc = "done" =>
    LET out == OutputImageData(lastRun)
        w == lastRun.image.width
        h == lastRun.image.height
    IN /\ Len(out.data) = w * h * BytesPerPixel
       /\ Len(out.data) = out.width * out.height * BytesPerPixel
       /\ lastRun.rotation \in {0, 180} => out.width = w /\ out.height = h
       /\ lastRun.rotation \in {90, 270} => out.width = h /\ out.height = w

\* a run has turned by 90 degrees an image that is wider than high, and returned
\* an image that is higher than wide
C19_Witness ==
  /\ lastRun.pc = "done"
  /\ lastRun.rotation = 90
  /\ lastRun.image.width > lastRun.image.height
  /\ NewHeight(lastRun) > NewWidth(lastRun)

\* C20: with calls made one at a time, whenever no call is in progress, and also
\* while a run waits for a load, activePages is the number of active pages,
\* inactivePages the number of inactive pages, their sum the number of pages of
\* the table, and memoryUsage is activePages * pageSize.
C20_GaugeConsistency ==
  /\ stats.activePages = Cardinality(ActivePages)
  /\ stats.inactivePages = Cardinality(InactivePages)
  /\ stats.activePages + stats.inactivePages = Len(pageTable)
  /\ stats.memoryUsage = stats.activePages * pageSize

\* at rest after a run that took faults, with active and inactive pages in the table
C20_Witness ==
  /\ Quiescent
  /\ lastRun.pc = "done"
  /\ stats.pageFaults >= 2
  /\ ActivePages # {}
  /\ InactivePages # {}

\* every page of the table has a byte buffer, of 4 bytes for each pixel of its
\* range, if it is active, and none if it is inactive
BytesIffActive ==
  \A i \in 1..Len(pageTable) :
    LET page == pageTable[i] IN
    /\ page.status \in {"active", "inactive"}
    /\ page.status = "active" =>
         /\ page.data # Null
         /\ Len(page.data) = BytesPerPixel * (page.endPixel - page.startPixel)
    /\ page.status = "inactive" => page.data = Null

\* the pixel ranges of the pages of a table, in table order
RangesOf(table) == [i \in 1..Len(table) |-> <<table[i].startPixel, table[i].endPixel>>]

\* C21: in every state a page has its byte buffer, 4 bytes for each pixel of its
\* range, exactly when it is active; and as long as no storeImage is made, the
\* records of the table and their ranges stay, those of evicted pages too.
C21_BytesIffResident ==
  [][/\ BytesIffActive'
     /\ epoch' = epoch => RangesOf(pageTable') = RangesOf(pageTable)]_vars

\* a page was evicted and reloaded while another page of the table is evicted
C21_Witness ==
  /\ emitted # <<>> /\ emitted[Len(emitted)].type = "memory:page:swapped-in"
  /\ \E i \in ActivePages : pageTable[i].data = Zeros(Len(pageTable[i].data))
  /\ InactivePages # {}

\* C22: as long as no storeImage is made, pageHits and pageFaults never decrease,
\* whatever the number of runs.
C22_CounterMonotonicity ==
  [][epoch' = epoch => /\ stats'.pageHits >= stats.pageHits
                       /\ stats'.pageFaults >= stats.pageFaults]_vars

\* a second render of the same stored image has finished, and the counters hold
\* more accesses than the table has pages
C22_Witness ==
  /\ epoch = 1
  /\ nreq = 2
  /\ Quiescent
  /\ stats.pageHits > 0
  /\ stats.pageHits + stats.pageFaults = 2 * Len(pageTable)

\* C23: the handling of a fault evicts at most one page, and does so, with the
\* swapped-out signal, while the faulted page is still inactive; the load then
\* rebuilds the bytes of the page once, emits one swapped-in signal, for this
\* page, and no eviction, counts one fault, and leaves the page active with a
\* lastAccessed that no page of the table exceeds.
C23_FaultSequence ==
  [][\A r \in RunIds :
       LET p == runs[r].idx + 1
           outs == SignalCount(emitted', "memory:page:swapped-out")
           ins == SignalCount(emitted', "memory:page:swapped-in")
       IN /\ (cpu = r /\ runs[r].pc = "acquire" /\ runs'[r].pc = "loading") =>
               /\ outs <= 1
               /\ ins = 0
               /\ pageTable[p].status = "inactive"
               /\ pageTable'[p].status = "inactive"
               /\ stats'.activePages * pageSize + pageSize <= memoryLimit
          /\ (runs[r].pc = "loading" /\ runs'[r].pc # "loading") =>
               /\ outs = 0
               /\ ins = 1
               /\ \A k \in 1..Len(emitted') :
                    emitted'[k].type = "memory:page:swapped-in" => emitted'[k].pageId = p - 1
               /\ pageTable'[p].status = "active"
               /\ pageTable'[p].data # Null
               /\ stats'.pageFaults = stats.pageFaults + 1
               /\ \A j \in 1..Len(pageTable') :
                    pageTable'[j].lastAccessed <= pageTable'[p].lastAccessed]_vars

\* a fault that evicted a page has ended, another page being active besides the
\* one just loaded
C23_Witness ==
  /\ emitted # <<>> /\ emitted[Len(emitted)].type = "memory:page:swapped-in"
  /\ Cardinality(ActivePages) >= 2
  /\ InactivePages # {}
  /\ stats.pageFaults >= 2

\* the budget in pages
BudgetPages == memoryLimit \div pageSize

\* C24: a storeImage of N pages under a budget of B pages makes max(0, N - B)
\* evictions, emits one swapped-out signal for each, and leaves min(N, B) pages
\* active.
C24_RebuildAdmission ==
  JustStored =>
    LET N == Len(pageTable)
        B == BudgetPages
    IN /\ Cardinality(SwappedOut) = Max(0, N - B)
       /\ Cardinality(InactivePages) = Max(0, N - B)
       /\ { emitted[k].pageId + 1 : k \in SwappedOut } = InactivePages
       /\ Cardinality(ActivePages) = Min(N, B)

\* an image of four pages was stored under a budget of one page
C24_Witness ==
  /\ JustStored
  /\ Len(pageTable) = 4
  /\ BudgetPages = 1
  /\ Cardinality(SwappedOut) = 3

\* C25: a swapOutLRUPage made when no page is active (by the swapInPage of a fault
\* that finds no room) changes no status, no data and no statistic, and emits no
\* signal; the fault goes on to its load.
C25_EvictNothing ==
  [][\A r \in RunIds :
       (/\ cpu = r /\ runs[r].pc = "acquire" /\ runs[r].idx < runs[r].pageCount
        /\ runs[r].idx < Len(pageTable)
        /\ ActivePages = {}
        /\ NoRoom(M))
         => /\ pageTable' = pageTable
            /\ stats' = stats
            /\ emitted' = <<>>
            /\ runs'[r].pc = "loading"]_vars

\* a fault has found no room and no active page, and waits for its load
C25_Witness ==
  /\ \E r \in RunIds : runs[r].pc = "loading"
  /\ ActivePages = {}
  /\ Len(pageTable) >= 2
  /\ stats.memoryUsage + pageSize > memoryLimit
  /\ emitted = <<>>

\* hits and faults counted together
Accesses(st) == st.pageHits + st.pageFaults

\* C26: a run visits the pages of the table in ascending index, one at a time: each
\* step of the run either waits (index and access count unchanged), or acquires the
\* page at its index (the only page whose timestamp may change) and moves to the next
\* index with exactly one access counted, or finishes after the last page of the
\* table; so a run counts as many accesses as the table has pages.
C26_PageVisitingOrder ==
  [][\A r \in RunIds :
       runs[r].pc # "idle" =>
         \/ /\ runs'[r].pc = "idle"
            /\ runs[r].idx = runs[r].pageCount
            /\ runs[r].pageCount = Len(pageTable)
            /\ Accesses(stats') = Accesses(stats)
         \/ /\ runs'[r].pc # "idle"
            /\ runs'[r].idx = runs[r].idx
            /\ Accesses(stats') = Accesses(stats)
            /\ \A i \in 1..Len(pageTable) :
                 pageTable'[i].lastAccessed = pageTable[i].lastAccessed
         \/ /\ runs'[r].pc # "idle"
            /\ runs[r].idx < runs[r].pageCount
            /\ runs'[r].idx = runs[r].idx + 1
            /\ Accesses(stats') = Accesses(stats) + 1
            /\ \A i \in 1..Len(pageTable) :
                 pageTable'[i].lastAccessed # pageTable[i].lastAccessed
                   => i = runs[r].idx + 1]_vars

\* a run of four pages has finished, some of them faulted, and four accesses are
\* counted since the image was stored
C26_Witness ==
  /\ Quiescent
  /\ lastRun.pc = "done"
  /\ lastRun.idx = 4
  /\ Len(pageTable) = 4
  /\ stats.pageFaults >= 1
  /\ Accesses(stats) = 4

\* C27: every run that has started finishes: each page load it waits on completes
\* and the run moves past the faulted page, up to the end of the page loop.
C27_RunTermination ==
  \A r \in RunIds : (runs[r].pc # "idle") ~> (runs[r].pc = "idle")

\* a run of at least three pages that faulted on every one of them has finished
C27_Witness ==
  /\ Quiescent
  /\ lastRun.pc = "done"
  /\ Len(lastRun.outputData) > 0
  /\ Len(pageTable) >= 3
  /\ stats.pageFaults = Len(pageTable)
  /\ timers = <<>>

\* C28: a run transforms a copy of the stored bytes: a step that leaves the table in
\* place leaves the bytes of every page that is active before and after it as they
\* were, so a page that stays active throughout a run holds the same bytes after it.
C28_StoredBytesKept ==
  [][epoch' = epoch =>
       \A i \in 1..Len(pageTable) :
         (pageTable[i].status = "active" /\ pageTable'[i].status = "active")
           => pageTable'[i].data = pageTable[i].data]_vars

\* a run that changes the bytes it reads has finished with every page a hit, and the
\* pages still hold the bytes of the image
C28_Witness ==
  /\ Quiescent
  /\ lastRun.pc = "done"
  /\ lastRun.adjustments.brightness # 0
  /\ lastRun.filter # "none"
  /\ Len(pageTable) >= 2
  /\ stats.pageHits = Len(pageTable)
  /\ lastRun.outputData # lastRun.image.data
  /\ \A i \in 1..Len(pageTable) :
       pageTable[i].data = Slice(lastRun.image.data, pageTable[i].startIndex,
                                 pageTable[i].endIndex)

\* C29: the chunk processChunk returns has the length of its input and the alpha
\* byte (every fourth byte) of each pixel as in the input, for every brightness,
\* contrast and filter; with the invert filter and both adjustments at zero every
\* colour byte c comes out as 255 - c.
C29_AlphaUntouched ==
  nreq = 1 =>
    LET input == originalImage.data
        output == currentImage.data
    IN /\ Len(output) = Len(input)
       /\ \A j \in 1..Len(input) : j % BytesPerPixel = 0 => output[j] = input[j]
       /\ (currentFilter = "invert" /\ currentAdjustments = NoAdjustments)
            => \A j \in 1..Len(input) :
                 j % BytesPerPixel # 0 => output[j] = 255 - input[j]

\* a chunk of two pixels, the first partly transparent, has gone through both
\* adjustments and the sepia filter, which changed its colours
C29_Witness ==
  /\ nreq = 1
  /\ Len(originalImage.data) = 2 * BytesPerPixel
  /\ originalImage.data[4] = 77
  /\ currentAdjustments = [brightness |-> 20, contrast |-> 50]
  /\ currentFilter = "sepia"
  /\ currentImage.data[4] = 77
  /\ currentImage.data[1] # originalImage.data[1]

\* C30: while the runs in flight all work on the table of the one image loaded so
\* far, however they overlap at the wait of a swap-in, activePages is the number of
\* active pages, inactivePages the number of inactive pages and not negative, and
\* memoryUsage is within memoryLimit: a page two runs faulted on is counted in once.
C30_OverlapGaugesConsistent ==
  epoch = 1 =>
    /\ stats.activePages = Cardinality(ActivePages)
    /\ stats.inactivePages = Cardinality(InactivePages)
    /\ stats.inactivePages >= 0
    /\ stats.memoryUsage <= memoryLimit

\* C31: a run that was waiting in a swap-in when storeImage rebuilt the table does
\* not touch the statistics of the new table when its load ends: pageHits, pageFaults,
\* activePages, inactivePages and memoryUsage are after the step what they were before.
C31_OldRunLeavesNewStats ==
  [][\A r \in RunIds :
       (/\ runs[r].pc = "loading"
        /\ runs[r].pageEpoch # epoch
        /\ runs'[r].pc # "loading")
         => stats' = stats]_vars

\* C32: once no run is in flight, the render that finished last is the one started
\* last: it was computed from the current originalImage with the current adjustments,
\* filter and rotation, and currentImage is its output as read back from the canvas.
C32_LatestRenderWins ==
  (Quiescent /\ lastRun.pc = "done" /\ lastRun.caller = "editor") =>
    /\ lastRun.image = originalImage
    /\ lastRun.adjustments = currentAdjustments
    /\ lastRun.filter = currentFilter
    /\ lastRun.rotation = currentRotation
    /\ currentImage \in CanvasReadings(OutputImageData(lastRun))

----------------------------------------------------------------------------
(* The rotation of the editor and of its saved states *)

RotationDomain == {0, 90, 180, 270}

\* C33: through loads, rotations, saves, undos, redos and crops (and the adjustments,
\* filters and resizes a session also has) the rotation of the editor, and of every
\* saved state, is one of 0, 90, 180, 270; rotating right then left, or left then
\* right, gives the rotation back
C33_RotationDomain ==
  /\ currentRotation \in RotationDomain
  /\ \A i \in 1..Len(historyManager.states) :
       historyManager.states[i].rotation \in RotationDomain
  /\ Rotated(Rotated(currentRotation, "right"), "left") = currentRotation
  /\ Rotated(Rotated(currentRotation, "left"), "right") = currentRotation

\* a left turn was saved and an undo has restored the rotation of the loaded image
C33_Witness ==
  /\ returned # NoState
  /\ currentRotation = 0
  /\ \E i \in 1..Len(historyManager.states) : historyManager.states[i].rotation = 270

----------------------------------------------------------------------------
(* The history of states *)

\* the state the history manager is at (states[currentIndex] of the code)
CurrentState(h) == h.states[h.currentIndex + 1]

\* C34: with maxStates >= 1 a history never holds more than maxStates states;
\* currentIndex is -1 exactly when it holds none and else an index of a state; an
\* undo without canUndo, and a redo without canRedo, returns null and changes nothing
C34_HistoryBounds ==
  LET h == historyManager
  IN /\ Len(h.states) <= h.maxStates
     /\ (h.currentIndex = -1) <=> (Len(h.states) = 0)
     /\ Len(h.states) > 0 => (0 <= h.currentIndex /\ h.currentIndex < Len(h.states))
     /\ ~canUndo(h) => (undo(h).h = h /\ undo(h).returned = NoState)
     /\ ~canRedo(h) => (redo(h).h = h /\ redo(h).returned = NoState)

\* a full history of two or more states at its first state, after an undo that was refused
C34_Witness ==
  /\ historyManager.maxStates >= 2
  /\ Len(historyManager.states) = historyManager.maxStates
  /\ historyManager.currentIndex = 0
  /\ returned = NoState

\* C35: addState makes the added state the current and the last one, so that nothing
\* can be redone after it; of the states before the call only those up to the current
\* one are kept, in their order, the oldest one possibly dropped
C35_AddStateBranches ==
  \A state \in HistoryStates :
    LET h == historyManager
        a == addState(h, state)
        n == Len(a.states)
        past == SubSeq(h.states, 1, h.currentIndex + 1)
    IN /\ n >= 1
       /\ a.currentIndex = n - 1
       /\ a.states[n] = state
       /\ ~canRedo(a)
       /\ redo(a).returned = NoState
       /\ n - 1 <= Len(past)
       /\ SubSeq(a.states, 1, n - 1) = SubSeq(past, Len(past) - n + 2, Len(past))

\* after an undo to the first of two states a different state was added in place of
\* the second
C35_Witness ==
  /\ Len(historyManager.states) = 2
  /\ historyManager.currentIndex = 1
  /\ returned = historyManager.states[1]
  /\ historyManager.states[1] # historyManager.states[2]

\* C36: when canUndo holds, undo then redo returns the state that was current and
\* leaves the history as it was; when canRedo holds, redo then undo does the same
C36_UndoRedoRoundTrip ==
  LET h == historyManager
  IN /\ canUndo(h) =>
          /\ redo(undo(h).h).returned = CurrentState(h)
          /\ redo(undo(h).h).h = h
     /\ canRedo(h) =>
          /\ undo(redo(h).h).returned = CurrentState(h)
          /\ undo(redo(h).h).h = h

\* a history with states behind and ahead of the current one, reached by an undo or a redo
C36_Witness ==
  /\ canUndo(historyManager)
  /\ canRedo(historyManager)
  /\ returned # NoState

----------------------------------------------------------------------------
(* Callbacks subscribed with once *)

\* C37: a callback subscribed with once is called at most once whatever is emitted,
\* also when a callback emits the event again during an emit, and it is not
\* subscribed any more once it was called
C37_OnceAtMostOnce ==
  \A i \in 1..Len(eventBus.listeners) :
    LET l == eventBus.listeners[i]
    IN l.kind = "once" =>
         /\ eventBus.calls[l.id] <= 1
         /\ eventBus.calls[l.id] >= 1 =>
              \A j \in 1..Len(eventBus.events) : eventBus.events[j] # l

----------------------------------------------------------------------------
(* The state saved when a slider is released *)

\* C38: whenever a slider is released, the state added to the history by its change
\* event carries, for that slider, the value of its last input event, whatever the
\* timing of the input and of the release
C38_ReleaseSavesFinalValue ==
  [][\A slider \in Sliders :
       SliderChange(slider) =>
         CurrentState(historyManager').adjustments[slider] = toolsUI[slider]]_vars

====
